---- MODULE Spec2Model ----
(***************************************************************************)
(* A model of the Task Platform backend (src/app): the relational state    *)
(* (projects, memberships, tasks, attachments, activities, magic links,    *)
(* sessions), the HTTP handlers of the project, task and auth routers, the *)
(* access-control engine and the request middleware.                       *)
(*                                                                         *)
(* Every handler is one action that takes the authenticated caller and the *)
(* request's inputs, and leaves the HTTP status in `resp`.  The handlers   *)
(* carry no bound of their own: each specification below is an environment *)
(* that issues a bounded family of requests.                               *)
(***************************************************************************)
EXTENDS Integers, Sequences, FiniteSets, Bags, TLC

VARIABLES
    \* tables of the project and task subsystems
    projects, members, tasks, attachments, activities, labels,
    \* primary keys handed out so far (uuid4 is modelled by a counter)
    next_project_id, next_task_id, next_attachment_id,
    \* history: the bag of <<project_id, task_number>> ever given to a task
    issued,
    \* the response to the last request
    resp,
    \* tables magic_links and sessions, the clock, the next link token
    magic_links, sessions, now, next_token,
    \* history: the bag of link tokens whose verification returned a bearer token
    verified,
    \* the outcome of the last AuthMiddleware.dispatch
    dispatched,
    \* RateLimitMiddleware.request_counts and, as history, the requests let through
    request_counts, passed,
    \* requests between two of their database steps
    inflight,
    \* Story Tracker: table user_story, its autoincrement, the files of the
    \* upload directory by name and, as history, the uploads that succeeded
    stories, next_story_id, upload_dir, saved,
    \* the arguments of a call of a helper of utils/helpers.py and what it
    \* returned: the empty set before the call, the set of the value after
    args, result,
    \* the lines LoggingMiddleware wrote to logger "api", as history
    api_log

dbVars == <<projects, members, tasks, attachments, activities, labels>>
idVars == <<next_project_id, next_task_id, next_attachment_id>>
authVars == <<magic_links, sessions, next_token, verified>>
rateVars == <<request_counts, passed>>
storyVars == <<stories, next_story_id, upload_dir, saved>>
helperVars == <<args, result>>
logVars == <<api_log>>
vars == <<projects, members, tasks, attachments, activities, labels,
          next_project_id, next_task_id, next_attachment_id, issued, resp,
          magic_links, sessions, now, next_token, verified,
          dispatched, request_counts, passed, inflight,
          stories, next_story_id, upload_dir, saved, args, result, api_log>>

(***************************************************************************)
(* Bounds of the environments.                                             *)
(***************************************************************************)
MaxProjects == 1

(***************************************************************************)
(* Value domains.                                                          *)
(***************************************************************************)
None == "None"     \* Python's None, for a user id, a role, a type, a value
NoId == 0          \* Python's None for the id of a project, task or attachment
NoKey == <<>>      \* Python's None for a task key
UserRoles == {"ADMIN", "USER", "VIEWER"}
MemberRoles == {"ADMIN", "MEMBER", "VIEWER"}
ProjectTypes == {"TEAM_MANAGED", "COMPANY_MANAGED"}
ProjectPermission == {"VIEW", "EDIT", "DELETE", "MANAGE_MEMBERS"}
TaskStatus == {"TODO", "IN_PROGRESS", "DONE", "ARCHIVED"}

\* The users table.  No router changes a user's role or active flag, so the
\* table is fixed: a global ADMIN (ua), two USERs (uu, uw), a VIEWER (uv) and
\* an inactive USER (ui).
Users == {"ua", "uu", "uw", "uv", "ui"}
UserRole == [u \in Users |->
    CASE u = "ua" -> "ADMIN" [] u = "uv" -> "VIEWER" [] OTHER -> "USER"]
UserActive == [u \in Users |-> u # "ui"]

get_user_by_id(user_id) == IF user_id \in Users THEN user_id ELSE None

(***************************************************************************)
(* Access control (permissions/access_control.py).                         *)
(***************************************************************************)
\* A variant table in which a MEMBER may also DELETE.
ROLE_PERMISSIONS_Mut(role) ==
    CASE role = "ADMIN" -> {"VIEW", "EDIT", "DELETE", "MANAGE_MEMBERS"}
      [] role = "MEMBER" -> {"VIEW", "EDIT", "DELETE"}
      [] role = "VIEWER" -> {"VIEW"}
      [] OTHER -> {}

ROLE_PERMISSIONS(role) ==
    CASE role = "ADMIN" -> {"VIEW", "EDIT", "DELETE", "MANAGE_MEMBERS"}
      [] role = "MEMBER" -> {"VIEW", "EDIT"}
      [] role = "VIEWER" -> {"VIEW"}
      [] OTHER -> {}

\* require_role: 200 when the role is allowed, else the 403 it raises.
require_role(user_role, allowed_roles) ==
    IF user_role \notin allowed_roles THEN 403 ELSE 200

\* A variant decision without the global VIEWER step (and without the
\* COMPANY_MANAGED branch, which only repeats the table).
AccessDecision_Mut(user_role, member_role, project_type, permission) ==
    IF user_role = None THEN 401
    ELSE IF user_role = "ADMIN" THEN 200
    ELSE IF member_role = None THEN 403
    ELSE IF project_type = None THEN 500
    ELSE IF permission \notin ROLE_PERMISSIONS(member_role) THEN 403
    ELSE 200

\* A variant whose COMPANY_MANAGED branch also keeps a MEMBER from EDIT.
AccessDecision_Overlay(user_role, member_role, project_type, permission) ==
    IF user_role = None THEN 401
    ELSE IF user_role = "ADMIN" THEN 200
    ELSE IF user_role = "VIEWER" /\ permission # "VIEW" THEN 403
    ELSE IF member_role = None THEN 403
    ELSE IF project_type = None THEN 500
    ELSE IF /\ project_type = "COMPANY_MANAGED"
            /\ member_role = "VIEWER"
            /\ permission # "VIEW" THEN 403
    ELSE IF /\ project_type = "COMPANY_MANAGED"
            /\ member_role = "MEMBER"
            /\ permission \in {"EDIT", "DELETE", "MANAGE_MEMBERS"} THEN 403
    ELSE IF permission \notin ROLE_PERMISSIONS(member_role) THEN 403
    ELSE 200

\* The decision of require_project_access once its three queries are done:
\* user_role is None when the user row is missing, member_role is None when
\* there is no membership row, project_type is None when there is no project
\* row.  200 stands for `return True`, the other values for the status of
\* the HTTPException raised; reading project.project_type of a missing
\* project is an AttributeError, a 500.
AccessDecision(user_role, member_role, project_type, permission) ==
    IF user_role = None THEN 401
    ELSE IF user_role = "ADMIN" THEN 200
    ELSE IF user_role = "VIEWER" /\ permission # "VIEW" THEN 403
    ELSE IF member_role = None THEN 403
    ELSE IF project_type = None THEN 500
    ELSE IF /\ project_type = "COMPANY_MANAGED"
            /\ member_role = "VIEWER"
            /\ permission # "VIEW" THEN 403
    ELSE IF /\ project_type = "COMPANY_MANAGED"
            /\ member_role = "MEMBER"
            /\ permission \in {"DELETE", "MANAGE_MEMBERS"} THEN 403
    ELSE IF permission \notin ROLE_PERMISSIONS(member_role) THEN 403
    ELSE 200

(***************************************************************************)
(* Queries of the repository layer (crud/project.py).                      *)
(***************************************************************************)
\* A variant lookup that ignores the id.
get_project_by_id_Mut(project_id) == {p \in projects : TRUE}

get_project_by_id(project_id) == {p \in projects : p.id = project_id}

\* A variant lookup that finds no project.
get_project_by_key_Mut(project_key) == {}

get_project_by_key(project_key) == {p \in projects : p.project_key = project_key}
\* A variant lookup that finds no membership.
get_project_member_Mut(project_id, user_id) == {}

get_project_member(project_id, user_id) ==
    {m \in members : m.project_id = project_id /\ m.user_id = user_id}

\* .first() of a query that found rows: one of them.
First(rows) == CHOOSE r \in rows : TRUE

require_project_access(project_id, user_id, permission) ==
    LET user == get_user_by_id(user_id)
        member == get_project_member(project_id, user_id)
        project == get_project_by_id(project_id)
    IN  AccessDecision(IF user = None THEN None ELSE UserRole[user],
                       IF member = {} THEN None ELSE First(member).role,
                       IF project = {} THEN None ELSE First(project).project_type,
                       permission)

(***************************************************************************)
(* Activities (crud/activity.py).                                          *)
(***************************************************************************)
Activity(project_id, task_id, action, task_key, old_value, new_value) ==
    [project_id |-> project_id, task_id |-> task_id, action |-> action,
     task_key |-> task_key, old_value |-> old_value, new_value |-> new_value]

\* The row as the table keeps it in this model: its foreign keys.
ActivityRow(a) == [project_id |-> a.project_id, task_id |-> a.task_id]

\* What a request left behind: its handler, the HTTP status, the id of the row
\* it created or changed, and the activities it recorded, in order.
Response(op, status, id, logged) ==
    [op |-> op, status |-> status, id |-> id, logged |-> logged]

\* A request that fails before it wrote anything.
Reject(op, status) ==
    /\ resp' = Response(op, status, NoId, <<>>)
    /\ UNCHANGED <<dbVars, idVars, issued>>

(***************************************************************************)
(* Project router (routers/project.py) over crud/project.py.               *)
(***************************************************************************)
\* ProjectCRUD.create: the project row and the owner's ADMIN membership,
\* added in one transaction (flush, then a single commit).
ProjectCreate(project_id, project_key, project_type, owner_id) ==
    /\ projects' = projects \cup
          {[id |-> project_id, project_key |-> project_key,
            project_type |-> project_type, owner_id |-> owner_id,
            is_archived |-> FALSE, name |-> "n0"]}
    /\ members' = members \cup
          {[project_id |-> project_id, user_id |-> owner_id, role |-> "ADMIN"]}

create_project(u, project_key, project_type) ==
    IF require_role(UserRole[u], {"ADMIN", "USER"}) # 200
    THEN Reject("create_project", 403)
    ELSE IF get_project_by_key(project_key) # {}
    THEN Reject("create_project", 400)
    ELSE LET a == Activity(next_project_id, NoId, "PROJECT_CREATED", NoKey, None, None)
         IN  /\ ProjectCreate(next_project_id, project_key, project_type, u)
             /\ activities' = activities \cup {ActivityRow(a)}
             /\ next_project_id' = next_project_id + 1
             /\ resp' = Response("create_project", 201, next_project_id, <<a>>)
             /\ UNCHANGED <<tasks, attachments, next_task_id, next_attachment_id, issued, labels>>

\* get_project: the access check comes before the lookup.  The response keeps
\* the caller next to the status and the id asked for.
get_project(u, project_id) ==
    LET access == require_project_access(project_id, u, "VIEW")
        status == IF access # 200 THEN access
                  ELSE IF get_project_by_id(project_id) = {} THEN 404
                  ELSE 200
    IN  /\ resp' = [op |-> "get_project", status |-> status, id |-> project_id,
                    user_id |-> u]
        /\ UNCHANGED <<dbVars, idVars, issued>>

update_project(u, project_id, name) ==
    LET access == require_project_access(project_id, u, "EDIT")
    IN  IF access # 200 THEN Reject("update_project", access)
        ELSE IF get_project_by_id(project_id) = {}
        THEN Reject("update_project", 404)
        ELSE /\ projects' = {IF p.id = project_id THEN [p EXCEPT !.name = name] ELSE p
                              : p \in projects}
             /\ resp' = Response("update_project", 200, project_id, <<>>)
             /\ UNCHANGED <<members, tasks, attachments, activities, idVars, issued, labels>>

\* A variant in which the other tasks keep their parent_task_id.
WithoutParents_Mut(rows, gone) == rows

\* What the deletion of the tasks `gone` leaves of the other tasks: backref
\* subtasks cascades no delete, so a task whose parent is deleted stays, its
\* parent_task_id set to NULL.
WithoutParents(rows, gone) ==
    {IF t.parent_task_id \in gone THEN [t EXCEPT !.parent_task_id = NoId] ELSE t
     : t \in rows}

\* ProjectCRUD.delete: the relationships of Project cascade to its members,
\* tasks, activities and labels, and those of Task to its attachments.
ProjectDelete(project_id) ==
    LET gone == {t.id : t \in {t \in tasks : t.project_id = project_id}}
    IN  /\ projects' = {p \in projects : p.id # project_id}
        /\ members' = {m \in members : m.project_id # project_id}
        /\ tasks' = WithoutParents({t \in tasks : t.project_id # project_id}, gone)
        /\ attachments' = {a \in attachments : a.task_id \notin gone}
        /\ activities' = {a \in activities : a.project_id # project_id}
        /\ labels' = {l \in labels : l.project_id # project_id}

delete_project(u, project_id) ==
    LET access == require_project_access(project_id, u, "DELETE")
    IN  IF access # 200 THEN Reject("delete_project", access)
        ELSE IF get_project_by_id(project_id) = {}
        THEN Reject("delete_project", 404)
        ELSE /\ ProjectDelete(project_id)
             /\ resp' = Response("delete_project", 204, project_id, <<>>)
             /\ UNCHANGED <<idVars, issued>>

archive_project(u, project_id) ==
    LET access == require_project_access(project_id, u, "DELETE")
    IN  IF access # 200 THEN Reject("archive_project", access)
        ELSE IF get_project_by_id(project_id) = {}
        THEN Reject("archive_project", 404)
        ELSE /\ projects' = {IF p.id = project_id THEN [p EXCEPT !.is_archived = TRUE] ELSE p
                              : p \in projects}
             /\ resp' = Response("archive_project", 200, project_id, <<>>)
             /\ UNCHANGED <<members, tasks, attachments, activities, idVars, issued, labels>>

\* add_project_member.  A global ADMIN passes the access check for a project
\* that does not exist; the insert then breaks the foreign key of
\* project_members.project_id: an IntegrityError, a 500, and nothing written.
add_project_member(u, project_id, user_id, role) ==
    LET access == require_project_access(project_id, u, "MANAGE_MEMBERS")
    IN  IF access # 200 THEN Reject("add_project_member", access)
        ELSE IF get_project_member(project_id, user_id) # {}
        THEN Reject("add_project_member", 400)
        ELSE IF get_project_by_id(project_id) = {}
        THEN Reject("add_project_member", 500)
        ELSE LET a == Activity(project_id, NoId, "MEMBER_ADDED", NoKey, None, user_id)
             IN  /\ members' = members \cup
                       {[project_id |-> project_id, user_id |-> user_id, role |-> role]}
                 /\ activities' = activities \cup {ActivityRow(a)}
                 /\ resp' = Response("add_project_member", 201, project_id, <<a>>)
                 /\ UNCHANGED <<projects, tasks, attachments, idVars, issued, labels>>

remove_project_member(u, project_id, user_id) ==
    LET access == require_project_access(project_id, u, "MANAGE_MEMBERS")
    IN  IF access # 200 THEN Reject("remove_project_member", access)
        ELSE IF get_project_member(project_id, user_id) = {}
        THEN Reject("remove_project_member", 404)
        ELSE LET a == Activity(project_id, NoId, "MEMBER_REMOVED", NoKey, user_id, None)
             IN  /\ members' = members \ get_project_member(project_id, user_id)
                 /\ activities' = activities \cup {ActivityRow(a)}
                 /\ resp' = Response("remove_project_member", 204, project_id, <<a>>)
                 /\ UNCHANGED <<projects, tasks, attachments, idVars, issued, labels>>


(***************************************************************************)
(* Task repository (crud/task.py).                                         *)
(***************************************************************************)
get_task_by_id(task_id) == {t \in tasks : t.id = task_id}

\* func.max(...).scalar() or 0
MaxOr0(S) == IF S = {} THEN 0 ELSE CHOOSE x \in S : \A y \in S : y <= x

get_next_task_number(project_id) ==
    MaxOr0({t.task_number : t \in {t \in tasks : t.project_id = project_id}}) + 1

\* f"{project.project_key}-{task_number}".  A project key matches ^[A-Z]+$,
\* so the text determines the pair and the pair stands for the text.
TaskKey(project_key, task_number) == <<project_key, task_number>>

\* The positions of a project's tasks in one status column.
ColumnPositions(project_id, status) ==
    {t.position : t \in {t \in tasks : t.project_id = project_id /\ t.status = status}}

\* A variant that places the task after the project's tasks of every status.
NewTask_Mut(task_id, project, task_data, reporter_id) ==
    LET task_number == get_next_task_number(project.id)
    IN  [id |-> task_id,
         project_id |-> project.id,
         task_key |-> TaskKey(project.project_key, task_number),
         task_number |-> task_number,
         title |-> task_data.title,
         assignee_id |-> task_data.assignee_id,
         parent_task_id |-> task_data.parent_task_id,
         reporter_id |-> reporter_id,
         status |-> "TODO",
         position |-> MaxOr0({t.position : t \in {t \in tasks : t.project_id = project.id}}) + 1]

\* Task(...) as create_task builds it: status defaults to TODO, the position
\* is one past the last TODO position of the project.
NewTask(task_id, project, task_data, reporter_id) ==
    LET task_number == get_next_task_number(project.id)
    IN  [id |-> task_id,
         project_id |-> project.id,
         task_key |-> TaskKey(project.project_key, task_number),
         task_number |-> task_number,
         title |-> task_data.title,
         assignee_id |-> task_data.assignee_id,
         parent_task_id |-> task_data.parent_task_id,
         reporter_id |-> reporter_id,
         status |-> "TODO",
         position |-> MaxOr0(ColumnPositions(project.id, "TODO")) + 1]

\* Column parent_task_id references tasks.id: an insert that names a parent
\* not stored fails.
ParentStored(task) ==
    task.parent_task_id = NoId \/ get_task_by_id(task.parent_task_id) # {}

\* A variant column without the unique constraint.
TaskKeyUnique_Mut(task) == TRUE

\* Column task_key is unique: an insert of a key already stored fails.
TaskKeyUnique(task) == \A t \in tasks : t.task_key # task.task_key

\* The fields of schema TaskUpdate that a task of this model has.
TaskUpdateFields == {"title", "assignee_id"}

\* TaskUpdate parsed from a request body: the record of the schema's fields
\* the body sets; pydantic ignores every other key of the body.
TaskUpdate(body) == [f \in DOMAIN body \cap TaskUpdateFields |-> body[f]]

\* A variant without exclude_unset: the fields the request left out are set
\* to their default None.
UpdatedTask_Mut(task, update_data) ==
    [f \in DOMAIN task |->
        IF f \in DOMAIN update_data THEN update_data[f]
        ELSE IF f \in TaskUpdateFields THEN None ELSE task[f]]

\* crud.update_task: setattr for every field of model_dump(exclude_unset=True).
\* update_data is the record of the fields the request set.
UpdatedTask(task, update_data) ==
    [f \in DOMAIN task |-> IF f \in DOMAIN update_data THEN update_data[f] ELSE task[f]]

\* A variant with autoflush: the query also counts the task's own pending
\* row, which has the new status and still the old position.
StatusPosition_Mut(task, status) ==
    MaxOr0(ColumnPositions(task.project_id, status) \cup {task.position}) + 1

\* crud.update_task_status.  The session does not autoflush (database.py),
\* so the max() query reads the stored rows, in which the task still has its
\* old status and position.
StatusPosition(task, status) ==
    MaxOr0(ColumnPositions(task.project_id, status)) + 1

TaskWithStatus(task, status) ==
    [task EXCEPT !.status = status, !.position = StatusPosition(task, status)]

\* A variant whose shift has no project filter.
TasksAfterMove_AnyProject(task, status, position) ==
    {IF t.id = task.id
        THEN [t EXCEPT !.status = status, !.position = position]
        ELSE IF t.status = status /\ t.position >= position
             THEN [t EXCEPT !.position = t.position + 1]
             ELSE t
     : t \in tasks}

\* A variant that shifts only the tasks after the position.
TasksAfterMove_Mut(task, status, position) ==
    {IF t.id = task.id
        THEN [t EXCEPT !.status = status, !.position = position]
        ELSE IF /\ t.project_id = task.project_id
                /\ t.status = status
                /\ t.position > position
             THEN [t EXCEPT !.position = t.position + 1]
             ELSE t
     : t \in tasks}

\* crud.update_task_position: every other task of the project in the target
\* status at or after the position moves up by one, then the task is placed.
TasksAfterMove(task, status, position) ==
    {IF t.id = task.id
        THEN [t EXCEPT !.status = status, !.position = position]
        ELSE IF /\ t.project_id = task.project_id
                /\ t.status = status
                /\ t.position >= position
             THEN [t EXCEPT !.position = t.position + 1]
             ELSE t
     : t \in tasks}

\* db.delete(task): attachments cascade; the activities and the subtasks of
\* the task stay, their task_id and parent_task_id set to NULL (relationships
\* without a delete cascade).
TaskDelete(task_id) ==
    /\ tasks' = WithoutParents({t \in tasks : t.id # task_id}, {task_id})
    /\ attachments' = {a \in attachments : a.task_id # task_id}
    /\ activities' = {IF a.task_id = task_id THEN [a EXCEPT !.task_id = NoId] ELSE a
                       : a \in activities}

(***************************************************************************)
(* Task router (routers/task.py).                                          *)
(***************************************************************************)
create_task(u, project_id, task_data) ==
    LET access == require_project_access(project_id, u, "EDIT")
    IN  IF access # 200 THEN Reject("create_task", access)
        ELSE IF get_project_by_id(project_id) = {}
        THEN Reject("create_task", 500)   \* project.project_key of None
        ELSE LET task == NewTask(next_task_id, First(get_project_by_id(project_id)),
                                 task_data, u)
                 a == Activity(project_id, task.id, "TASK_CREATED", task.task_key, None, None)
             IN  IF ~TaskKeyUnique(task) \/ ~ParentStored(task)
                 THEN Reject("create_task", 500)
                 ELSE /\ tasks' = tasks \cup {task}
                      /\ issued' = issued (+) SetToBag({<<project_id, task.task_number>>})
                      /\ activities' = activities \cup {ActivityRow(a)}
                      /\ next_task_id' = next_task_id + 1
                      /\ resp' = Response("create_task", 201, task.id, <<a>>)
                      /\ UNCHANGED <<projects, members, attachments,
                                     next_project_id, next_attachment_id, labels>>

\* update_data.assignee_id as the router reads it: None when the field was not set.
SuppliedAssignee(update_data) ==
    IF "assignee_id" \in DOMAIN update_data THEN update_data.assignee_id ELSE None

update_task(u, task_id, update_data) ==
    IF get_task_by_id(task_id) = {} THEN Reject("update_task", 404)
    ELSE LET task == First(get_task_by_id(task_id))
             access == require_project_access(task.project_id, u, "EDIT")
             old_assignee == task.assignee_id
             new_assignee == SuppliedAssignee(update_data)
             a1 == Activity(task.project_id, task_id, "TASK_UPDATED", task.task_key, None, None)
             a2 == Activity(task.project_id, task_id, "ASSIGNEE_CHANGED", task.task_key,
                            old_assignee, new_assignee)
             logged == IF new_assignee # None /\ new_assignee # old_assignee
                       THEN <<a1, a2>> ELSE <<a1>>
         IN  IF access # 200 THEN Reject("update_task", access)
             ELSE /\ tasks' = (tasks \ {task}) \cup {UpdatedTask(task, update_data)}
                  /\ activities' = activities \cup {ActivityRow(a1)}
                  /\ resp' = Response("update_task", 200, task_id, logged)
                  /\ UNCHANGED <<projects, members, attachments, idVars, issued, labels>>

update_task_status(u, task_id, status) ==
    IF get_task_by_id(task_id) = {} THEN Reject("update_task_status", 404)
    ELSE LET task == First(get_task_by_id(task_id))
             access == require_project_access(task.project_id, u, "EDIT")
             a == Activity(task.project_id, task_id, "STATUS_CHANGED", task.task_key,
                           task.status, status)
         IN  IF access # 200 THEN Reject("update_task_status", access)
             ELSE /\ tasks' = (tasks \ {task}) \cup {TaskWithStatus(task, status)}
                  /\ activities' = activities \cup {ActivityRow(a)}
                  /\ resp' = Response("update_task_status", 200, task_id, <<a>>)
                  /\ UNCHANGED <<projects, members, attachments, idVars, issued, labels>>

update_task_position(u, task_id, status, position) ==
    IF get_task_by_id(task_id) = {} THEN Reject("update_task_position", 404)
    ELSE LET task == First(get_task_by_id(task_id))
             access == require_project_access(task.project_id, u, "EDIT")
             a == Activity(task.project_id, task_id, "STATUS_CHANGED", task.task_key,
                           task.status, status)
             logged == IF task.status # status THEN <<a>> ELSE <<>>
         IN  IF access # 200 THEN Reject("update_task_position", access)
             ELSE /\ tasks' = TasksAfterMove(task, status, position)
                  /\ activities' = activities \cup {ActivityRow(logged[i]) : i \in DOMAIN logged}
                  /\ resp' = Response("update_task_position", 200, task_id, logged)
                  /\ UNCHANGED <<projects, members, attachments, idVars, issued, labels>>

delete_task(u, task_id) ==
    IF get_task_by_id(task_id) = {} THEN Reject("delete_task", 404)
    ELSE LET task == First(get_task_by_id(task_id))
             access == require_project_access(task.project_id, u, "DELETE")
         IN  IF access # 200 THEN Reject("delete_task", access)
             ELSE /\ TaskDelete(task_id)
                  /\ resp' = Response("delete_task", 204, task_id, <<>>)
                  /\ UNCHANGED <<projects, members, idVars, issued, labels>>

\* upload_attachment; FileService.save_file answers 413 to a file above the
\* configured size before anything is stored.
upload_attachment(u, task_id, too_large) ==
    IF get_task_by_id(task_id) = {} THEN Reject("upload_attachment", 404)
    ELSE LET task == First(get_task_by_id(task_id))
             access == require_project_access(task.project_id, u, "EDIT")
             a == Activity(task.project_id, task_id, "ATTACHMENT_ADDED", task.task_key,
                           None, "file")
         IN  IF access # 200 THEN Reject("upload_attachment", access)
             ELSE IF too_large THEN Reject("upload_attachment", 413)
             ELSE /\ attachments' = attachments \cup
                        {[id |-> next_attachment_id, task_id |-> task_id]}
                  /\ activities' = activities \cup {ActivityRow(a)}
                  /\ next_attachment_id' = next_attachment_id + 1
                  /\ resp' = Response("upload_attachment", 200, next_attachment_id, <<a>>)
                  /\ UNCHANGED <<projects, members, tasks,
                                 next_project_id, next_task_id, issued, labels>>

\* delete_attachment: the access check is on the task of the path;
\* crud.delete_attachment looks the attachment up by its id alone.
delete_attachment(u, task_id, attachment_id) ==
    IF get_task_by_id(task_id) = {} THEN Reject("delete_attachment", 404)
    ELSE LET task == First(get_task_by_id(task_id))
             access == require_project_access(task.project_id, u, "EDIT")
         IN  IF access # 200 THEN Reject("delete_attachment", access)
             ELSE IF {a \in attachments : a.id = attachment_id} = {}
             THEN Reject("delete_attachment", 404)
             ELSE /\ attachments' = {a \in attachments : a.id # attachment_id}
                  /\ resp' = Response("delete_attachment", 204, attachment_id, <<>>)
                  /\ UNCHANGED <<projects, members, tasks, activities, idVars, issued, labels>>

(***************************************************************************)
(* The board view (crud.get_board_tasks, routers.get_project_board).       *)
(***************************************************************************)
\* A variant query without the project filter.
BoardQuery_Mut(project_id) == {t \in tasks : t.status # "ARCHIVED"}

\* The rows the query of get_board_tasks selects.
BoardQuery(project_id) ==
    {t \in tasks : t.project_id = project_id /\ t.status # "ARCHIVED"}

\* .order_by(Task.position).all(): the rows in every order the database may
\* return them in, ascending by position, rows of equal position in any order.
OrderBy(rows) ==
    {ordered \in [1 .. Cardinality(rows) -> rows] :
        /\ \A i, j \in 1 .. Cardinality(rows) : i < j =>
              /\ ordered[i] # ordered[j]
              /\ ordered[i].position <= ordered[j].position}

\* The dict get_board_tasks builds from the ordered rows, as the list of its
\* items in insertion order: a row goes to the list of its status when its
\* status is one of the three keys.
get_board_tasks(ordered) ==
    LET keys == <<"TODO", "IN_PROGRESS", "DONE">>
    IN  [k \in 1 .. 3 |->
            <<keys[k], SelectSeq(ordered, LAMBDA task : task.status = keys[k])>>]

\* TaskResponse, in the fields this model keeps.
build_task_response(task) ==
    [id |-> task.id, project_id |-> task.project_id, task_key |-> task.task_key,
     status |-> task.status, position |-> task.position,
     attachment_count |-> Cardinality({a \in attachments : a.task_id = task.id})]

BoardColumn(status_name, column_tasks) ==
    [status |-> status_name,
     tasks |-> [i \in 1 .. Len(column_tasks) |-> build_task_response(column_tasks[i])],
     count |-> Len(column_tasks)]

get_project_board(u, project_id) ==
    LET access == require_project_access(project_id, u, "VIEW")
    IN  IF access # 200 THEN Reject("get_project_board", access)
        ELSE IF get_project_by_id(project_id) = {}
        THEN Reject("get_project_board", 404)
        ELSE /\ \E ordered \in OrderBy(BoardQuery(project_id)) :
                   LET board == get_board_tasks(ordered)
                   IN  resp' = [op |-> "get_project_board", status |-> 200,
                                project_id |-> project_id,
                                project_key |-> First(get_project_by_id(project_id)).project_key,
                                columns |-> [k \in 1 .. 3 |->
                                                BoardColumn(board[k][1], board[k][2])]]
             /\ UNCHANGED <<dbVars, idVars, issued>>

(***************************************************************************)
(* Search (routers/search.py over crud/project.py and crud/task.py).       *)
(***************************************************************************)
\* The characters of the texts of this model, lower-cased as ILIKE compares
\* them.  A task key is the project key, a hyphen and the number.
Lower(text) ==
    CASE text = "t0" -> <<"t", "0">>
      [] text = "t1" -> <<"t", "1">>
      [] text = "T" -> <<"t">>
      [] text = "a" -> <<"a">>
      [] text = "AA" -> <<"a", "a">>
      [] text = "BB" -> <<"b", "b">>
      [] text = "-1" -> <<"-", "1">>
      [] text = "1" -> <<"1">>
      [] text = "2" -> <<"2">>
      [] text = "3" -> <<"3">>
      [] text = "zz" -> <<"z", "z">>

\* text ILIKE '%query%' on lower-cased characters.
Contains(chars, query) ==
    \E i \in 0 .. Len(chars) - Len(query) :
        SubSeq(chars, i + 1, i + Len(query)) = query

ilike(chars, query) == Contains(chars, Lower(query))

\* The characters of a stored task_key.
TaskKeyText(task_key) ==
    Lower(task_key[1]) \o <<"-">> \o
    Lower(CASE task_key[2] = 1 -> "1" [] task_key[2] = 2 -> "2" [] OTHER -> "3")

\* ProjectCRUD.get_user_projects: the projects, not archived, in which the
\* user has a membership row.
get_user_projects(user_id) ==
    {p \in projects :
        /\ \E m \in members : m.project_id = p.id /\ m.user_id = user_id
        /\ ~p.is_archived}

\* .limit(n).all(): any n of the rows, all of them when there are fewer.
Limit(rows, n) ==
    {found \in SUBSET rows :
        Cardinality(found) = IF Cardinality(rows) < n THEN Cardinality(rows) ELSE n}

\* crud.search_tasks before its limit.
task_crud_search_tasks(query, project_ids) ==
    {t \in tasks :
        /\ t.project_id \in project_ids
        /\ ilike(TaskKeyText(t.task_key), query) \/ ilike(Lower(t.title), query)}

SearchTaskResult(t) ==
    [id |-> t.id, task_key |-> t.task_key, title |-> t.title, status |-> t.status,
     project_key |-> First(get_project_by_id(t.project_id)).project_key]

\* GET /search, its task results.
global_search(u, q) ==
    LET project_ids == {p.id : p \in get_user_projects(u)}
    IN  /\ \E found \in Limit(task_crud_search_tasks(q, project_ids), 10) :
              resp' = [op |-> "global_search", status |-> 200, user_id |-> u,
                       tasks |-> {SearchTaskResult(t) : t \in found}]
        /\ UNCHANGED <<dbVars, idVars, issued>>

\* GET /search/tasks; project_id is NoId when the parameter is not sent.
search_tasks(u, q, project_id) ==
    LET project_ids == IF project_id # NoId THEN {project_id}
                       ELSE {p.id : p \in get_user_projects(u)}
    IN  /\ \E found \in Limit(task_crud_search_tasks(q, project_ids), 20) :
              resp' = [op |-> "search_tasks", status |-> 200, user_id |-> u,
                       tasks |-> {SearchTaskResult(t) : t \in found}]
        /\ UNCHANGED <<dbVars, idVars, issued>>

(***************************************************************************)
(* Story Tracker (file_handler.py, crud.py, routers/user_stories.py).      *)
(* A file name is the sequence of the pieces of its text between slashes:  *)
(* "a.txt" is <<"a.txt">>, "d/a.txt" is <<"d", "a.txt">>, "d/" is          *)
(* <<"d", "">>, the empty text is <<"">>; <<>> is no file name (None).     *)
(* A content is the sequence of its bytes.                                 *)
(***************************************************************************)
\* settings.max_file_size_bytes, the configured ceiling (its settings class
\* is not part of src/; the default is 50 MB), scaled to a few bytes.
max_file_size_bytes == 2

\* A request without the part support_document.
NoFile == [sent |-> FALSE, filename |-> <<>>, content |-> <<>>]

\* A variant that keeps the text before the first slash.
basename_Mut(filename) == filename[1]

\* os.path.basename: the text after the last slash.
basename(filename) == filename[Len(filename)]

\* `not file.filename`: None or the empty text.
NoFilename(filename) == filename = <<>> \/ filename = <<"">>

\* file.filename.strip() == "": only white space.
BlankFilename(filename) == Len(filename) = 1 /\ filename[1] \in {"", " "}

\* A variant that accepts a blank file name.
validate_file_Mut(file) ==
    IF ~file.sent \/ NoFilename(file.filename) THEN 400 ELSE 200

\* validate_file: 200 when it returns, else the status it raises.
validate_file(file) ==
    IF ~file.sent \/ NoFilename(file.filename) THEN 400
    ELSE IF BlankFilename(file.filename) THEN 400
    ELSE 200

\* save_upload_file: the status (200 when it returns), the tuple returned
\* and the directory it leaves.  The path of an empty base name is the
\* upload directory itself: it exists, and open() on it fails, a 500.
save_upload_file(file) ==
    LET safe_filename == basename(file.filename)
        file_existed == safe_filename = "" \/ safe_filename \in DOMAIN upload_dir
        file_size == Len(file.content)
        Result(status, written) ==
            [status |-> status, file_name |-> safe_filename,
             file_path |-> <<"uploads", safe_filename>>, file_size |-> file_size,
             override |-> file_existed, written |-> written]
    IN  IF validate_file(file) # 200
        THEN [status |-> validate_file(file), file_name |-> "", file_path |-> <<>>,
              file_size |-> 0, override |-> FALSE, written |-> upload_dir]
        ELSE IF file_size > max_file_size_bytes THEN Result(413, upload_dir)
        ELSE IF file_size = 0 THEN Result(400, upload_dir)
        ELSE IF safe_filename = "" THEN Result(500, upload_dir)
        ELSE Result(200, [name \in DOMAIN upload_dir \cup {safe_filename} |->
                             IF name = safe_filename THEN file.content
                             ELSE upload_dir[name]])

\* POST /api/v1/user-stories/.  The part support_document is declared
\* File(...), required: a request without it is answered 422 by the
\* framework and the handler does not run.  The other form fields are valid.
create_user_story(support_document) ==
    IF ~support_document.sent
    THEN /\ resp' = [op |-> "create_user_story", status |-> 422, id |-> NoId,
                     file_name |-> "", override |-> FALSE]
         /\ UNCHANGED storyVars
    ELSE LET file == save_upload_file(support_document)
         IN  IF file.status # 200
             THEN /\ resp' = [op |-> "create_user_story", status |-> file.status,
                              id |-> NoId, file_name |-> "", override |-> FALSE]
                  /\ UNCHANGED storyVars
             ELSE /\ upload_dir' = file.written
                  /\ stories' = stories \cup
                        {[id |-> next_story_id, file_name |-> file.file_name,
                          file_path |-> file.file_path,
                          file_size_bytes |-> file.file_size]}
                  /\ next_story_id' = next_story_id + 1
                  /\ saved' = Append(saved, [file_name |-> file.file_name,
                                             content |-> support_document.content,
                                             override |-> file.override])
                  /\ resp' = [op |-> "create_user_story", status |-> 201,
                              id |-> next_story_id, file_name |-> file.file_name,
                              override |-> file.override]

(***************************************************************************)
(* Helpers (utils/helpers.py).                                             *)
(***************************************************************************)
\* items[start:end] for 0 <= start <= end: both ends are cut at len(items).
Slice(items, start, end) ==
    SubSeq(items,
           (IF start < Len(items) THEN start ELSE Len(items)) + 1,
           IF end < Len(items) THEN end ELSE Len(items))

\* A variant whose number of pages rounds down.
paginate_Mut(items, page, limit) ==
    LET total == Len(items)
        pages == total \div limit
        start == (page - 1) * limit
        end == start + limit
    IN  [items |-> Slice(items, start, end), total |-> total, page |-> page,
         limit |-> limit, pages |-> pages, has_next |-> page < pages,
         has_prev |-> page > 1]

\* paginate; // is the floor division, \div for operands that are not negative.
paginate(items, page, limit) ==
    LET total == Len(items)
        pages == (total + limit - 1) \div limit
        start == (page - 1) * limit
        end == start + limit
    IN  [items |-> Slice(items, start, end), total |-> total, page |-> page,
         limit |-> limit, pages |-> pages, has_next |-> page < pages,
         has_prev |-> page > 1]

\* A variant table that also lets TODO go to DONE.
get_status_transition_rules_Mut ==
    [status \in TaskStatus |->
        CASE status = "TODO" -> <<"IN_PROGRESS", "DONE">>
          [] status = "IN_PROGRESS" -> <<"TODO", "DONE">>
          [] status = "DONE" -> <<"IN_PROGRESS", "ARCHIVED">>
          [] status = "ARCHIVED" -> <<"TODO">>]

get_status_transition_rules ==
    [status \in TaskStatus |->
        CASE status = "TODO" -> <<"IN_PROGRESS">>
          [] status = "IN_PROGRESS" -> <<"TODO", "DONE">>
          [] status = "DONE" -> <<"IN_PROGRESS", "ARCHIVED">>
          [] status = "ARCHIVED" -> <<"TODO">>]

\* rules.get(current_status, []) and `new_status in allowed_transitions`.
is_valid_status_transition(current_status, new_status) ==
    LET rules == get_status_transition_rules
        allowed_transitions == IF current_status \in DOMAIN rules
                               THEN rules[current_status] ELSE <<>>
    IN  \E i \in DOMAIN allowed_transitions : allowed_transitions[i] = new_status

(***************************************************************************)
(* Magic links and sessions (crud/user.py, services/auth_service.py,       *)
(* routers/auth.py).  Time is counted in minutes.                          *)
(***************************************************************************)
\* config.py sets 15 and 30 minutes; the model keeps lifetimes short enough
\* for links and tokens to expire within the clock's range.
MAGIC_LINK_EXPIRE_MINUTES == 2
ACCESS_TOKEN_EXPIRE_MINUTES == 3

\* jwt.encode(payload, secret_key): the payload and the key that signed it.
\* exp and iat are whole time units, so two tokens of one user made at the
\* same instant are the same text.
create_access_token(user_id) ==
    [sub |-> user_id, exp |-> now + ACCESS_TOKEN_EXPIRE_MINUTES, iat |-> now,
     key |-> "secret_key"]

\* crud.create_magic_link; column token is unique.
create_magic_link(user_id, token, expires_at) ==
    magic_links' = magic_links \cup
        {[token |-> token, user_id |-> user_id, expires_at |-> expires_at,
          is_used |-> FALSE]}

\* AuthService.send_magic_link: secrets.token_urlsafe draws a token no link has.
send_magic_link(user_id) ==
    /\ create_magic_link(user_id, next_token, now + MAGIC_LINK_EXPIRE_MINUTES)
    /\ next_token' = next_token + 1
    /\ resp' = [op |-> "send_magic_link", status |-> 200, access_token |-> None]
    /\ UNCHANGED <<sessions, verified>>

\* A variant query without the is_used filter.
get_magic_link_by_token_Mut(token) ==
    {l \in magic_links : l.token = token /\ l.expires_at > now}

get_magic_link_by_token(token) ==
    {l \in magic_links : l.token = token /\ ~l.is_used /\ l.expires_at > now}

mark_magic_link_used(magic_link) ==
    magic_links' = (magic_links \ {magic_link}) \cup {[magic_link EXCEPT !.is_used = TRUE]}

\* AuthService.verify_magic_link and the router's 401.  mark_magic_link_used
\* commits before create_session inserts; column sessions.token is unique, so
\* a session for a token text already stored fails after the link was spent.
verify_magic_link(token) ==
    IF get_magic_link_by_token(token) = {}
    THEN /\ resp' = [op |-> "verify_magic_link", status |-> 401, access_token |-> None]
         /\ UNCHANGED <<magic_links, sessions, next_token, verified>>
    ELSE LET magic_link == First(get_magic_link_by_token(token))
             access_token == create_access_token(magic_link.user_id)
         IN  /\ mark_magic_link_used(magic_link)
             /\ UNCHANGED next_token
             /\ IF \E s \in sessions : s.token = access_token
                THEN /\ resp' = [op |-> "verify_magic_link", status |-> 500,
                                 access_token |-> None]
                     /\ UNCHANGED <<sessions, verified>>
                ELSE /\ sessions' = sessions \cup
                            {[user_id |-> magic_link.user_id, token |-> access_token,
                              expires_at |-> now + ACCESS_TOKEN_EXPIRE_MINUTES]}
                     /\ verified' = verified (+) SetToBag({token})
                     /\ resp' = [op |-> "verify_magic_link", status |-> 200,
                                 access_token |-> access_token]

(***************************************************************************)
(* Request paths.  A path is the sequence of the pieces of its text, cut   *)
(* where one of the configured prefixes ends, so that str.startswith is    *)
(* the prefix order of sequences.                                          *)
(***************************************************************************)
startswith(path, prefix) ==
    /\ Len(prefix) <= Len(path)
    /\ SubSeq(path, 1, Len(prefix)) = prefix

EXCLUDED_PATHS ==
    {<<"/api/v1/auth", "/signup">>, <<"/api/v1/auth", "/login">>,
     <<"/api/v1/auth", "/verify">>, <<"/health">>, <<"/docs">>, <<"/redoc">>,
     <<"/openapi.json">>}

RATE_LIMITED_PATHS == {<<"/api/v1/auth">>, <<"/api/v1/search">>}

(***************************************************************************)
(* AuthMiddleware (middleware/auth_middleware.py).                         *)
(***************************************************************************)
_is_excluded_path(path) == \E excluded \in EXCLUDED_PATHS : startswith(path, excluded)

\* The Authorization header is [scheme, credentials], the text before and
\* after its seventh character; scheme None is a request without the header.
\* The credentials are a token: empty text, text that is no JWT, or a JWT.
NoToken == [format |-> "empty", sub |-> None, exp |-> 0, key |-> None]

_extract_token(authorization) ==
    IF authorization.scheme = "Bearer " THEN authorization.credentials ELSE NoToken

\* A variant that does not verify the signature.
_verify_token_Mut(token) ==
    IF token.format # "jwt" \/ token.exp < now
    THEN {} ELSE {[sub |-> token.sub, exp |-> token.exp]}

\* jwt.decode: JWTError for text that is no JWT, for a signature the secret
\* key did not make, and for an exp claim in the past.  The result is the
\* set holding the payload, empty for None.
_verify_token(token) ==
    IF token.format # "jwt" \/ token.key # "secret_key" \/ token.exp < now
    THEN {} ELSE {[sub |-> token.sub, exp |-> token.exp]}

NoState == [user_id |-> None, user_role |-> None]

\* dispatch: the status answered, whether call_next ran, and request.state.
Dispatched(path, authorization, status, call_next, state) ==
    [path |-> path, authorization |-> authorization, at |-> now,
     status |-> status, call_next |-> call_next, state |-> state]

AuthMiddleware_dispatch(path, authorization) ==
    LET token == _extract_token(authorization)
        user_data == _verify_token(token)
        user == get_user_by_id(First(user_data).sub)
    IN  dispatched' =
          IF _is_excluded_path(path)
          THEN Dispatched(path, authorization, 200, TRUE, NoState)
          ELSE IF token.format = "empty"
          THEN Dispatched(path, authorization, 401, FALSE, NoState)
          ELSE IF user_data = {}
          THEN Dispatched(path, authorization, 401, FALSE, NoState)
          ELSE IF user = None \/ ~UserActive[user]
          THEN Dispatched(path, authorization, 401, FALSE, NoState)
          ELSE Dispatched(path, authorization, 200, TRUE,
                          [user_id |-> user, user_role |-> UserRole[user]])

(***************************************************************************)
(* RateLimitMiddleware (middleware/rate_limit_middleware.py).  Time is     *)
(* counted in seconds.                                                     *)
(***************************************************************************)
\* config.py sets 100 requests in 60 seconds; the model uses a threshold and
\* a window small enough to be filled and left within the clock's range.
RATE_LIMIT_REQUESTS == 2
RATE_LIMIT_WINDOW_SECONDS == 2

_should_rate_limit(path) == \E limited \in RATE_LIMITED_PATHS : startswith(path, limited)

\* f"{client_ip}:{request.url.path}"
Identifier(client_ip, path) == <<client_ip, path>>

\* The list _is_rate_limited leaves in request_counts[identifier].
InWindow(timestamps, current_time) ==
    SelectSeq(timestamps, LAMBDA timestamp : timestamp > current_time - RATE_LIMIT_WINDOW_SECONDS)

\* A variant that limits only above the threshold.
_is_rate_limited_Mut(timestamps, current_time) ==
    Len(InWindow(timestamps, current_time)) > RATE_LIMIT_REQUESTS

_is_rate_limited(timestamps, current_time) ==
    Len(InWindow(timestamps, current_time)) >= RATE_LIMIT_REQUESTS

\* dispatch.  _record_request reads the clock again: recorded_at is the time
\* of that second reading, at or after the time of the check.
RateLimitMiddleware_dispatch(client_ip, path, recorded_at) ==
    LET identifier == Identifier(client_ip, path)
        kept == InWindow(request_counts[identifier], now)
    IN  IF ~_should_rate_limit(path)
        THEN /\ resp' = [op |-> "rate_limit", status |-> 200, identifier |-> identifier]
             /\ UNCHANGED <<request_counts, passed, now>>
        ELSE IF _is_rate_limited(request_counts[identifier], now)
        THEN /\ request_counts' = [request_counts EXCEPT ![identifier] = kept]
             /\ resp' = [op |-> "rate_limit", status |-> 429, identifier |-> identifier]
             /\ UNCHANGED <<passed, now>>
        ELSE /\ request_counts' = [request_counts EXCEPT ![identifier] = Append(kept, recorded_at)]
             /\ passed' = [passed EXCEPT ![identifier] = Append(@, recorded_at)]
             /\ now' = recorded_at
             /\ resp' = [op |-> "rate_limit", status |-> 200, identifier |-> identifier]

(***************************************************************************)
(* LoggingMiddleware (middleware/logging_middleware.py) and the pipeline.  *)
(***************************************************************************)
\* getattr(request.state, "user_id", "anonymous")
getattr_user_id(state) ==
    IF state.user_id = None THEN "anonymous" ELSE state.user_id

\* What the middlewares inside the logging middleware answer to a request:
\* the rate limit first, then the authentication, then the route, which
\* stands for any handler and answers 200.  request.state is what the
\* authentication left in it.
call_next(client_ip, path, authorization) ==
    /\ RateLimitMiddleware_dispatch(client_ip, path, now)
    /\ IF resp'.status = 429
       THEN dispatched' = Dispatched(path, authorization, 429, FALSE, NoState)
       ELSE AuthMiddleware_dispatch(path, authorization)

\* dispatch: user_id is read from request.state before call_next, when no
\* middleware inside has run on the request; the line is written after the
\* response came back.  The entry also keeps, as history, the request.state
\* the request ended with.
LoggingMiddleware_dispatch(client_ip, path, authorization) ==
    LET user_id == getattr_user_id(NoState)
    IN  /\ call_next(client_ip, path, authorization)
        /\ api_log' = Append(api_log,
               [path |-> path, user_id |-> user_id, status |-> dispatched'.status,
                state |-> dispatched'.state])

(***************************************************************************)
(* The creating handlers, one database step at a time.  A request runs in  *)
(* a session of its own; requests served by different workers interleave   *)
(* between their reads and their commit.  inflight[w] is what worker w's   *)
(* session holds between the two.                                          *)
(***************************************************************************)
Idle == [op |-> "idle"]

\* routers.create_task up to db.add(task): the access check and the reads of
\* crud.create_task, which build the row from the committed rows.
create_task_read(w, u, project_id, task_data) ==
    LET access == require_project_access(project_id, u, "EDIT")
    IN  /\ inflight[w].op = "idle"
        /\ IF access # 200 THEN Reject("create_task", access) /\ UNCHANGED inflight
           ELSE IF get_project_by_id(project_id) = {}
           THEN Reject("create_task", 500) /\ UNCHANGED inflight
           ELSE /\ inflight' = [inflight EXCEPT ![w] =
                        [op |-> "create_task",
                         task |-> NewTask(next_task_id,
                                          First(get_project_by_id(project_id)),
                                          task_data, u)]]
                /\ next_task_id' = next_task_id + 1
                /\ UNCHANGED <<dbVars, next_project_id, next_attachment_id, issued, resp>>

\* db.commit() of crud.create_task and the activity the router writes next.
\* The insert fails on a task_key already stored and on a parent task or a
\* project deleted in the meantime (foreign keys).
create_task_commit(w) ==
    /\ inflight[w].op = "create_task"
    /\ inflight' = [inflight EXCEPT ![w] = Idle]
    /\ LET task == inflight[w].task
           a == Activity(task.project_id, task.id, "TASK_CREATED", task.task_key, None, None)
       IN  IF \/ ~TaskKeyUnique(task)
              \/ ~ParentStored(task)
              \/ get_project_by_id(task.project_id) = {}
           THEN Reject("create_task", 500)
           ELSE /\ tasks' = tasks \cup {task}
                /\ issued' = issued (+) SetToBag({<<task.project_id, task.task_number>>})
                /\ activities' = activities \cup {ActivityRow(a)}
                /\ resp' = Response("create_task", 201, task.id, <<a>>)
                /\ UNCHANGED <<projects, members, attachments, idVars, labels>>

\* AuthService.verify_magic_link up to the query of get_magic_link_by_token:
\* the worker's session holds the row it read, or answers 401.
verify_magic_link_read(w, token) ==
    /\ inflight[w].op = "idle"
    /\ IF get_magic_link_by_token(token) = {}
       THEN /\ resp' = [op |-> "verify_magic_link", status |-> 401, access_token |-> None]
            /\ UNCHANGED inflight
       ELSE /\ inflight' = [inflight EXCEPT ![w] =
                    [op |-> "verify_magic_link",
                     magic_link |-> First(get_magic_link_by_token(token))]]
            /\ UNCHANGED resp
    /\ UNCHANGED <<magic_links, sessions, next_token, verified>>

\* The rest of AuthService.verify_magic_link: mark_magic_link_used updates
\* the row by its primary key, whatever is_used holds by now, and commits;
\* create_session inserts the session of a token made at the current time.
verify_magic_link_commit(w) ==
    /\ inflight[w].op = "verify_magic_link"
    /\ inflight' = [inflight EXCEPT ![w] = Idle]
    /\ LET magic_link == inflight[w].magic_link
           access_token == create_access_token(magic_link.user_id)
       IN  /\ magic_links' = {IF l.token = magic_link.token
                               THEN [l EXCEPT !.is_used = TRUE] ELSE l : l \in magic_links}
           /\ UNCHANGED next_token
           /\ IF \E s \in sessions : s.token = access_token
              THEN /\ resp' = [op |-> "verify_magic_link", status |-> 500,
                               access_token |-> None]
                   /\ UNCHANGED <<sessions, verified>>
              ELSE /\ sessions' = sessions \cup
                          {[user_id |-> magic_link.user_id, token |-> access_token,
                            expires_at |-> now + ACCESS_TOKEN_EXPIRE_MINUTES]}
                   /\ verified' = verified (+) SetToBag({magic_link.token})
                   /\ resp' = [op |-> "verify_magic_link", status |-> 200,
                               access_token |-> access_token]

\* create_user_story up to `await file.read()` in save_upload_file: the file
\* is validated and file_path.exists() is answered; the request then waits
\* for the content while other requests run.
save_upload_file_exists(w, support_document) ==
    /\ inflight[w].op = "idle"
    /\ UNCHANGED storyVars
    /\ IF ~support_document.sent \/ validate_file(support_document) # 200
       THEN /\ resp' = [op |-> "create_user_story",
                        status |-> IF ~support_document.sent THEN 422
                                   ELSE validate_file(support_document),
                        id |-> NoId, file_name |-> "", override |-> FALSE]
            /\ UNCHANGED inflight
       ELSE /\ inflight' = [inflight EXCEPT ![w] =
                    [op |-> "create_user_story", file |-> support_document,
                     file_existed |-> basename(support_document.filename)
                                          \in DOMAIN upload_dir]]
            /\ UNCHANGED resp

\* The rest of save_upload_file and of create_user_story: the size checks,
\* open(file_path, "wb") and the story row, with the flag read before the
\* wait.  saved also keeps whether the name was on disk when this was written.
save_upload_file_write(w) ==
    /\ inflight[w].op = "create_user_story"
    /\ inflight' = [inflight EXCEPT ![w] = Idle]
    /\ LET file == inflight[w].file
           safe_filename == basename(file.filename)
           file_size == Len(file.content)
           status == IF file_size > max_file_size_bytes THEN 413
                     ELSE IF file_size = 0 THEN 400
                     ELSE IF safe_filename = "" THEN 500 ELSE 201
       IN  IF status # 201
           THEN /\ resp' = [op |-> "create_user_story", status |-> status,
                            id |-> NoId, file_name |-> "", override |-> FALSE]
                /\ UNCHANGED storyVars
           ELSE /\ upload_dir' = [name \in DOMAIN upload_dir \cup {safe_filename} |->
                                     IF name = safe_filename THEN file.content
                                     ELSE upload_dir[name]]
                /\ stories' = stories \cup
                      {[id |-> next_story_id, file_name |-> safe_filename,
                        file_path |-> <<"uploads", safe_filename>>,
                        file_size_bytes |-> file_size]}
                /\ next_story_id' = next_story_id + 1
                /\ saved' = Append(saved,
                      [file_name |-> safe_filename, content |-> file.content,
                       override |-> inflight[w].file_existed,
                       on_disk |-> safe_filename \in DOMAIN upload_dir])
                /\ resp' = [op |-> "create_user_story", status |-> 201,
                            id |-> next_story_id, file_name |-> safe_filename,
                            override |-> inflight[w].file_existed]

\* A variant in which a flush commits.
FlushedRows_Mut(project) == {project}

\* The rows of a session's flushed, uncommitted insert that other sessions read.
FlushedRows(project) == {}

\* routers.create_project up to db.flush() in ProjectCRUD.create.
create_project_flush(w, u, project_key, project_type) ==
    /\ inflight[w].op = "idle"
    /\ IF require_role(UserRole[u], {"ADMIN", "USER"}) # 200
       THEN Reject("create_project", 403) /\ UNCHANGED inflight
       ELSE IF get_project_by_key(project_key) # {}
       THEN Reject("create_project", 400) /\ UNCHANGED inflight
       ELSE LET project == [id |-> next_project_id, project_key |-> project_key,
                            project_type |-> project_type, owner_id |-> u,
                            is_archived |-> FALSE, name |-> "n0"]
            IN  /\ inflight' = [inflight EXCEPT ![w] =
                        [op |-> "create_project", project |-> project]]
                /\ projects' = projects \cup FlushedRows(project)
                /\ next_project_id' = next_project_id + 1
                /\ UNCHANGED <<members, tasks, attachments, activities,
                               next_task_id, next_attachment_id, issued, resp, labels>>

\* db.add(member); db.commit() of ProjectCRUD.create: the project row and the
\* owner's membership row become visible together, or, on a project_key
\* stored in the meantime, neither does.
create_project_commit(w) ==
    /\ inflight[w].op = "create_project"
    /\ LET project == inflight[w].project
       IN  IF \E p \in projects : p.project_key = project.project_key /\ p.id # project.id
           THEN /\ inflight' = [inflight EXCEPT ![w] = Idle]
                /\ projects' = projects \ {project}
                /\ resp' = Response("create_project", 500, NoId, <<>>)
                /\ UNCHANGED <<members, tasks, attachments, activities, idVars, issued, labels>>
           ELSE /\ inflight' = [inflight EXCEPT ![w] =
                        [op |-> "create_project_log", project |-> project]]
                /\ projects' = projects \cup {project}
                /\ members' = members \cup
                        {[project_id |-> project.id, user_id |-> project.owner_id,
                          role |-> "ADMIN"]}
                /\ UNCHANGED <<tasks, attachments, activities, idVars, issued, resp, labels>>

\* activity_crud.create_activity of routers.create_project, a commit of its
\* own, and the 201.  The project may have been deleted since (foreign key).
create_project_log(w) ==
    /\ inflight[w].op = "create_project_log"
    /\ inflight' = [inflight EXCEPT ![w] = Idle]
    /\ LET project == inflight[w].project
           a == Activity(project.id, NoId, "PROJECT_CREATED", NoKey, None, None)
       IN  IF get_project_by_id(project.id) = {}
           THEN Reject("create_project", 500)
           ELSE /\ activities' = activities \cup {ActivityRow(a)}
                /\ resp' = Response("create_project", 201, project.id, <<a>>)
                /\ UNCHANGED <<projects, members, tasks, attachments, idVars, issued, labels>>

(***************************************************************************)
(* The state after start-up: empty tables, no request served yet.          *)
(***************************************************************************)
Workers == {"w1", "w2"}
RequestPaths ==
    {<<"/api/v1/auth", "/signup">>, <<"/api/v1/auth", "/login">>,
     <<"/api/v1/auth", "/verify">>, <<"/api/v1/auth", "/verify", "/x">>,
     <<"/api/v1/auth", "/logout">>, <<"/api/v1/auth", "/me">>,
     <<"/health">>, <<"/health", "z">>, <<"/docs">>, <<"/redoc">>,
     <<"/openapi.json">>, <<"/api/v1/search">>, <<"/api/v1/search", "?q=a">>,
     <<"/api/v1", "/projects">>, <<"/api/v1", "/tasks">>, <<"/">>}
RateRequests ==
    {<<"ip1", <<"/api/v1/auth", "/login">>>>, <<"ip2", <<"/api/v1/search", "?q=a">>>>,
     <<"ip1", <<"/api/v1", "/projects">>>>}
Identifiers == {Identifier(r[1], r[2]) : r \in RateRequests}

\* What start-up leaves outside the project and task tables.
InitRest ==
    /\ issued = EmptyBag
    /\ resp = Response("none", 0, NoId, <<>>)
    /\ magic_links = {} /\ sessions = {}
    /\ now = 0
    /\ next_token = 1
    /\ verified = EmptyBag
    /\ dispatched = Dispatched(<<>>, [scheme |-> None, credentials |-> NoToken],
                               0, FALSE, NoState)
    /\ request_counts = [identifier \in Identifiers |-> <<>>]
    /\ passed = [identifier \in Identifiers |-> <<>>]
    /\ inflight = [w \in Workers |-> Idle]
    /\ stories = {} /\ next_story_id = 1
    /\ upload_dir = <<>> /\ saved = <<>>
    /\ api_log = <<>>

\* No helper called.
NoCall == args = [fn |-> "none"] /\ result = {}

\* The empty tables of the project and task subsystems.
InitTables ==
    /\ projects = {} /\ members = {} /\ tasks = {}
    /\ attachments = {} /\ activities = {} /\ labels = {}
    /\ next_project_id = 1 /\ next_task_id = 1 /\ next_attachment_id = 1

Init == InitTables /\ InitRest /\ NoCall

\* The clock.
Tick(MaxNow) ==
    /\ now < MaxNow
    /\ now' = now + 1

(***************************************************************************)
(* Environment of the auth router: links are sent, verified, and expire.   *)
(***************************************************************************)
MaxLinks == 2
MaxTime == 4

AuthTick ==
    /\ Tick(MaxTime)
    /\ UNCHANGED <<dbVars, idVars, issued, resp, authVars, dispatched, rateVars, storyVars, helperVars, inflight, logVars>>

SendMagicLink ==
    \E user_id \in {"uu", "uv"} :
        /\ next_token <= MaxLinks
        /\ send_magic_link(user_id)
        /\ UNCHANGED <<dbVars, idVars, issued, now, dispatched, rateVars, storyVars, helperVars, inflight, logVars>>

VerifyMagicLink ==
    \E token \in 1 .. MaxLinks + 1 :
        /\ verify_magic_link(token)
        /\ UNCHANGED <<dbVars, idVars, issued, now, dispatched, rateVars, storyVars, helperVars, inflight, logVars>>

NextAuth == AuthTick \/ SendMagicLink \/ VerifyMagicLink

SpecAuth == Init /\ [][NextAuth]_vars

\* C1: magic links are single-use.  No link token is ever verified into a
\* bearer token twice, and a verify request for a token that was already
\* verified successfully answers 401 with no bearer token and grants nothing,
\* whether or not the link has expired.
MagicLinkSingleUse ==
    /\ [](\A token \in DOMAIN verified : verified[token] <= 1)
    /\ [][\A token \in DOMAIN verified :
            verify_magic_link(token) =>
                /\ resp'.status = 401
                /\ resp'.access_token = None
                /\ sessions' = sessions
                /\ verified' = verified]_vars

\* A second verification of a link that is spent but not yet expired was refused.
MagicLinkSingleUseWitness ==
    /\ resp.op = "verify_magic_link"
    /\ resp.status = 401
    /\ \E l \in magic_links :
          /\ l.is_used
          /\ l.expires_at > now
          /\ l.token \in DOMAIN verified
          /\ \A other \in magic_links : other = l

(***************************************************************************)
(* Environment of the access-control engine: one project of either type,   *)
(* at most one membership row, and every caller asking for every           *)
(* permission.  "ux" is a user id with no row in users.                    *)
(***************************************************************************)
Subjects == Users \cup {"ux"}

InitAccess ==
    /\ \E project_type \in ProjectTypes :
          projects = {[id |-> 1, project_key |-> "AA", project_type |-> project_type,
                       owner_id |-> "ua", is_archived |-> FALSE, name |-> "n0"]}
    /\ \E rows \in {{}} \cup {{[project_id |-> 1, user_id |-> u, role |-> r]}
                               : u \in Users, r \in MemberRoles} :
          members = rows
    /\ tasks = {} /\ attachments = {} /\ activities = {} /\ labels = {}
    /\ next_project_id = 2 /\ next_task_id = 1 /\ next_attachment_id = 1
    /\ InitRest /\ NoCall

CheckAccess ==
    \E user_id \in Subjects, permission \in ProjectPermission :
        /\ resp' = [op |-> "require_project_access",
                    status |-> require_project_access(1, user_id, permission),
                    user_id |-> user_id, permission |-> permission]
        /\ UNCHANGED <<dbVars, idVars, issued, now, authVars, dispatched, rateVars, storyVars, helperVars, inflight, logVars>>

NextAccess == CheckAccess

SpecAccess == InitAccess /\ [][NextAccess]_vars

\* C2: the answer of require_project_access is the specified decision:
\* 401 for a missing user; else allowed for a global ADMIN; else 403 for a
\* global VIEWER asking for more than VIEW; else 403 without a membership;
\* else allowed exactly when the membership role grants the permission,
\* in a TEAM_MANAGED and in a COMPANY_MANAGED project alike.
AccessDecisionTable ==
    resp.op = "require_project_access" =>
        LET u == resp.user_id
            permission == resp.permission
            rows == {m \in members : m.project_id = 1 /\ m.user_id = u}
            Granted(member_role) ==
                CASE member_role = "ADMIN" -> {"VIEW", "EDIT", "DELETE", "MANAGE_MEMBERS"}
                  [] member_role = "MEMBER" -> {"VIEW", "EDIT"}
                  [] member_role = "VIEWER" -> {"VIEW"}
        IN  resp.status =
              IF u \notin Users THEN 401
              ELSE IF UserRole[u] = "ADMIN" THEN 200
              ELSE IF UserRole[u] = "VIEWER" /\ permission # "VIEW" THEN 403
              ELSE IF rows = {} THEN 403
              ELSE IF \E m \in rows : permission \in Granted(m.role) THEN 200
              ELSE 403

\* A MEMBER of a COMPANY_MANAGED project was refused DELETE.
AccessDecisionTableWitness ==
    /\ resp.op = "require_project_access"
    /\ resp.status = 403
    /\ resp.permission = "DELETE"
    /\ UserRole[resp.user_id] = "USER"
    /\ \E m \in members : m.user_id = resp.user_id /\ m.role = "MEMBER"
    /\ \E p \in projects : p.project_type = "COMPANY_MANAGED"

(***************************************************************************)
(* Environment of the routers with a global VIEWER.  User "uu" (global     *)
(* USER) builds projects, enrols the global VIEWER "uv" with any           *)
(* membership role, creates tasks and uploads attachments; "uv" issues     *)
(* every state-changing request of the project and task routers.           *)
(***************************************************************************)
MaxTasks == 1
MaxAttachments == 1
ProjectKeys == {"AA", "BB"}
ProjectIds == 1 .. MaxProjects + 1
TaskIds == 1 .. MaxTasks
AttachmentIds == 1 .. MaxAttachments
TaskData == [title |-> "t0", assignee_id |-> None, parent_task_id |-> NoId]

\* What the project and task routers never touch.
RouterFrame == UNCHANGED <<now, authVars, dispatched, rateVars, storyVars, helperVars, inflight, logVars>>

OwnerCreateProject ==
    \E project_type \in ProjectTypes :
        /\ next_project_id <= MaxProjects
        /\ create_project("uu", IF next_project_id = 1 THEN "AA" ELSE "BB", project_type)
        /\ RouterFrame

OwnerAddMember ==
    \E project_id \in ProjectIds, role \in MemberRoles :
        /\ add_project_member("uu", project_id, "uv", role)
        /\ RouterFrame

OwnerCreateTask ==
    \E project_id \in ProjectIds :
        /\ next_task_id <= MaxTasks
        /\ create_task("uu", project_id, TaskData)
        /\ RouterFrame

OwnerUpload ==
    \E task_id \in TaskIds :
        /\ next_attachment_id <= MaxAttachments
        /\ upload_attachment("uu", task_id, FALSE)
        /\ RouterFrame

\* A request of caller u to the project router that would change state.
ProjectRequest(u) ==
    \/ \E project_key \in ProjectKeys : create_project(u, project_key, "TEAM_MANAGED")
    \/ \E project_id \in ProjectIds : update_project(u, project_id, "n1")
    \/ \E project_id \in ProjectIds : delete_project(u, project_id)
    \/ \E project_id \in ProjectIds : archive_project(u, project_id)
    \/ \E project_id \in ProjectIds, role \in MemberRoles :
          add_project_member(u, project_id, "uw", role)
    \/ \E project_id \in ProjectIds, user_id \in {"uu", "uv"} :
          remove_project_member(u, project_id, user_id)

\* A request of caller u to the task router on a task that exists.
TaskRequest(u) ==
    \E task_id \in {t.id : t \in tasks} :
        \/ update_task(u, task_id, [title |-> "t1"])
        \/ \E status \in {"TODO", "DONE"} : update_task_status(u, task_id, status)
        \/ \E status \in {"TODO", "DONE"} : update_task_position(u, task_id, status, 0)
        \/ delete_task(u, task_id)
        \/ \E too_large \in BOOLEAN : upload_attachment(u, task_id, too_large)
        \/ \E attachment_id \in AttachmentIds : delete_attachment(u, task_id, attachment_id)

\* The same requests with a task id that names no task.
MissingTaskRequest(u) ==
    \E task_id \in (1 .. MaxTasks + 1) \ {t.id : t \in tasks} :
        \/ update_task(u, task_id, [title |-> "t1"])
        \/ \E status \in {"TODO", "DONE"} : update_task_status(u, task_id, status)
        \/ \E status \in {"TODO", "DONE"} : update_task_position(u, task_id, status, 0)
        \/ delete_task(u, task_id)
        \/ \E too_large \in BOOLEAN : upload_attachment(u, task_id, too_large)
        \/ \E attachment_id \in AttachmentIds : delete_attachment(u, task_id, attachment_id)

ViewerProjectRequest == ProjectRequest("uv") /\ RouterFrame

ViewerCreateTask ==
    \E project_id \in ProjectIds : create_task("uv", project_id, TaskData) /\ RouterFrame

ViewerTaskRequest == TaskRequest("uv") /\ RouterFrame

ViewerMissingTaskRequest == MissingTaskRequest("uv") /\ RouterFrame

Next ==
    \/ OwnerCreateProject \/ OwnerAddMember \/ OwnerCreateTask \/ OwnerUpload
    \/ ViewerProjectRequest \/ ViewerCreateTask
    \/ ViewerTaskRequest \/ ViewerMissingTaskRequest

Spec == Init /\ [][Next]_vars

\* Any state-changing request of the global VIEWER "uv".
ViewerRequest ==
    \/ ProjectRequest("uv")
    \/ \E project_id \in ProjectIds : create_task("uv", project_id, TaskData)
    \/ TaskRequest("uv")
    \/ MissingTaskRequest("uv")

\* C3, as the code has it: no request of a global VIEWER to create, update,
\* delete or archive a project, add or remove a member, create, update, move
\* or delete a task, or upload or delete an attachment changes a stored row,
\* whatever membership the VIEWER holds.  The answer is 403, except that a
\* task or attachment request naming a task that does not exist is answered
\* 404, the task lookup coming before the access check.
ViewerNeverMutates ==
    [][ViewerRequest =>
          /\ UNCHANGED <<dbVars, idVars, issued>>
          /\ resp'.status = IF MissingTaskRequest("uv") THEN 404 ELSE 403]_vars

\* C3, as stated: every such request of a global VIEWER is answered 403.
ViewerAlways403 ==
    [][ViewerRequest =>
          /\ UNCHANGED <<dbVars, idVars, issued>>
          /\ resp'.status = 403]_vars

\* The VIEWER, enrolled as ADMIN of every project, was refused deleting a
\* task that exists and has an attachment.
ViewerNeverMutatesWitness ==
    /\ resp.op = "delete_task"
    /\ resp.status = 403
    /\ attachments # {}
    /\ \A t \in tasks : \E m \in members :
          m.project_id = t.project_id /\ m.user_id = "uv" /\ m.role = "ADMIN"

(***************************************************************************)
(* Environment of the board: the owner "uu" creates projects and tasks,    *)
(* changes statuses, moves and deletes tasks.                              *)
(***************************************************************************)
MaxBoardProjects == 2
MaxBoardTasks == 2
MaxPosition == 2
BoardStatuses == {"TODO", "DONE"}

BoardCreateProject ==
    /\ next_project_id <= MaxBoardProjects
    /\ create_project("uu", IF next_project_id = 1 THEN "AA" ELSE "BB", "TEAM_MANAGED")
    /\ RouterFrame

BoardCreateTask ==
    \E project_id \in 1 .. MaxBoardProjects :
        /\ next_task_id <= MaxBoardTasks
        /\ create_task("uu", project_id, TaskData)
        /\ resp'.status = 201
        /\ RouterFrame

BoardUpdateStatus ==
    \E task_id \in 1 .. MaxBoardTasks, status \in BoardStatuses :
        /\ update_task_status("uu", task_id, status)
        /\ resp'.status = 200
        /\ \A t \in tasks' : t.position <= MaxPosition
        /\ RouterFrame

BoardUpdatePosition ==
    \E task_id \in 1 .. MaxBoardTasks, status \in BoardStatuses, position \in 0 .. 1 :
        /\ update_task_position("uu", task_id, status, position)
        /\ resp'.status = 200
        /\ \A t \in tasks' : t.position <= MaxPosition
        /\ RouterFrame

BoardDeleteTask ==
    \E task_id \in 1 .. MaxBoardTasks :
        /\ delete_task("uu", task_id)
        /\ resp'.status = 204
        /\ RouterFrame

NextBoard ==
    \/ BoardCreateProject \/ BoardCreateTask \/ BoardUpdateStatus
    \/ BoardUpdatePosition \/ BoardDeleteTask

SpecBoard == Init /\ [][NextBoard]_vars

\* C4: task numbers of a project are never reused: no <<project, number>>
\* pair is ever given to two tasks, deleted tasks included.
TaskNumbersNeverReused ==
    \A e \in BagToSet(issued) : CopiesIn(e, issued) <= 1

\* C10: a status change moves the task to the end of its new column.  After
\* update_task_status(task, S) the task has status S and position one more
\* than the largest position the project's tasks of status S had before the
\* call (0 if there were none), above every other task of that column.
StatusChangeMovesToEnd ==
    [][\A task_id \in 1 .. MaxBoardTasks, S \in BoardStatuses :
          (update_task_status("uu", task_id, S) /\ resp'.status = 200) =>
              LET old == CHOOSE t \in tasks : t.id = task_id
                  new == CHOOSE t \in tasks' : t.id = task_id
                  before == {t.position : t \in {x \in tasks :
                                 x.project_id = old.project_id /\ x.status = S}}
                  others == {t \in tasks' : /\ t.id # task_id
                                            /\ t.project_id = old.project_id
                                            /\ t.status = S}
              IN  /\ new.status = S
                  /\ \A b \in before : b + 1 <= new.position
                  /\ new.position = 1 \/ new.position - 1 \in before
                  /\ \A o \in others : o.position < new.position
                  /\ others = {t \in tasks : /\ t.id # task_id
                                            /\ t.project_id = old.project_id
                                            /\ t.status = S}]_vars

\* A task whose status was changed to DONE stands right behind the task that
\* was in the DONE column already.
StatusChangeMovesToEndWitness ==
    /\ resp.op = "update_task_status"
    /\ resp.status = 200
    /\ \E t \in tasks, o \in tasks :
          /\ t.id = resp.id /\ t.status = "DONE"
          /\ o.id # t.id /\ o.project_id = t.project_id /\ o.status = "DONE"
          /\ t.position = o.position + 1

(***************************************************************************)
(* Environment of the project keys: a global ADMIN, a global USER and a    *)
(* global VIEWER create projects over two keys; the ADMIN and the USER     *)
(* rename, archive and delete them.                                        *)
(***************************************************************************)
MaxKeyProjects == 3
KeyCallers == {"ua", "uu", "uv"}

KeyCreateProject ==
    \E u \in KeyCallers, project_key \in ProjectKeys :
        /\ next_project_id <= MaxKeyProjects
        /\ create_project(u, project_key, "TEAM_MANAGED")
        /\ RouterFrame

KeyUpdateProject ==
    \E u \in {"ua", "uu"}, project_id \in 1 .. MaxKeyProjects :
        /\ update_project(u, project_id, "n1")
        /\ RouterFrame

KeyArchiveProject ==
    \E u \in {"ua", "uu"}, project_id \in 1 .. MaxKeyProjects :
        /\ archive_project(u, project_id)
        /\ RouterFrame

KeyDeleteProject ==
    \E u \in {"ua", "uu"}, project_id \in 1 .. MaxKeyProjects :
        /\ delete_project(u, project_id)
        /\ RouterFrame

NextKeys == KeyCreateProject \/ KeyUpdateProject \/ KeyArchiveProject \/ KeyDeleteProject

SpecKeys == Init /\ [][NextKeys]_vars

\* No two stored projects share a project_key.
ProjectKeysUnique ==
    \A p \in projects, q \in projects : p.project_key = q.project_key => p = q

\* C6, as the code has it: project keys are unique.  A create-project
\* request whose key is the key of an existing project creates no project,
\* no membership and no activity; it fails with 400 when the caller's global
\* role is ADMIN or USER and with 403 when it is VIEWER, the role check
\* coming first.  In every reachable state no two projects share a key.
DuplicateKeyRejected ==
    /\ []ProjectKeysUnique
    /\ [][\A u \in KeyCallers, project_key \in ProjectKeys :
            (/\ \E p \in projects : p.project_key = project_key
             /\ create_project(u, project_key, "TEAM_MANAGED")) =>
                /\ resp'.status = IF UserRole[u] = "VIEWER" THEN 403 ELSE 400
                /\ resp'.logged = <<>>
                /\ UNCHANGED <<projects, members, activities>>]_vars

\* C6, as stated: every create-project request with an existing key fails
\* with 400.
DuplicateKeyAlways400 ==
    /\ []ProjectKeysUnique
    /\ [][\A u \in KeyCallers, project_key \in ProjectKeys :
            (/\ \E p \in projects : p.project_key = project_key
             /\ create_project(u, project_key, "TEAM_MANAGED")) =>
                /\ resp'.status = 400
                /\ resp'.logged = <<>>
                /\ UNCHANGED <<projects, members, activities>>]_vars

\* A create request was refused with 400 while a project holds a key that
\* an earlier, deleted project held before it.
DuplicateKeyRejectedWitness ==
    /\ resp.op = "create_project"
    /\ resp.status = 400
    /\ \E p \in projects : p.id > 1 /\ p.project_key = "AA"
    /\ \E p \in projects : p.project_key = "BB"

(***************************************************************************)
(* Environment of the concurrent creations: two workers serve the owner    *)
(* "uu", who creates projects and tasks and deletes tasks; a worker's      *)
(* creation may stand between its reads and its commit while the other     *)
(* worker runs.                                                            *)
(***************************************************************************)
MaxConcProjects == 2
MaxConcTasks == 3

\* What the handlers of this environment never touch.
ConcFrame == UNCHANGED <<now, authVars, dispatched, rateVars, storyVars, helperVars, logVars>>

ConcCreateProjectFlush ==
    \E w \in Workers, project_key \in ProjectKeys :
        /\ next_project_id <= MaxConcProjects
        /\ create_project_flush(w, "uu", project_key, "TEAM_MANAGED")
        /\ ConcFrame

ConcCreateProjectCommit ==
    \E w \in Workers : create_project_commit(w) /\ ConcFrame

ConcCreateProjectLog ==
    \E w \in Workers : create_project_log(w) /\ ConcFrame

ConcCreateTaskRead ==
    \E w \in Workers, project_id \in 1 .. MaxConcProjects :
        /\ next_task_id <= MaxConcTasks
        /\ create_task_read(w, "uu", project_id, TaskData)
        /\ ConcFrame

ConcCreateTaskCommit ==
    \E w \in Workers : create_task_commit(w) /\ ConcFrame

ConcDeleteTask ==
    \E task_id \in 1 .. MaxConcTasks :
        /\ delete_task("uu", task_id)
        /\ resp'.status = 204
        /\ UNCHANGED inflight
        /\ ConcFrame

NextConc ==
    \/ ConcCreateProjectFlush \/ ConcCreateProjectCommit \/ ConcCreateProjectLog
    \/ ConcCreateTaskRead \/ ConcCreateTaskCommit \/ ConcDeleteTask

SpecConc == Init /\ [][NextConc]_vars

\* C5: in every reachable state no two stored tasks share a task_key and no
\* two tasks of one project share a task_number, also when two create-task
\* requests of one project interleave between reading the maximum
\* task_number and committing the row.
TaskKeysUnique ==
    \A t1 \in tasks, t2 \in tasks :
        (\/ t1.task_key = t2.task_key
         \/ (t1.project_id = t2.project_id /\ t1.task_number = t2.task_number))
            => t1 = t2

\* Two requests read the same next number; one committed its task and the
\* other's commit failed.
TaskKeysUniqueWitness ==
    /\ resp.op = "create_task"
    /\ resp.status = 500
    /\ next_task_id = 3
    /\ Cardinality(tasks) = 1
    /\ \A w \in Workers : inflight[w].op = "idle"

\* C7: project creation enrols the creator atomically.  Every step that
\* makes a new project visible makes visible with it exactly one membership
\* row of that project, the owner's with role ADMIN; no state holds a
\* membership row of a project that is not stored.
ProjectCreationAtomic ==
    /\ [](\A m \in members : \E p \in projects : p.id = m.project_id)
    /\ [][\A p \in projects' \ projects :
            {m \in members' : m.project_id = p.id} =
                {[project_id |-> p.id, user_id |-> p.owner_id, role |-> "ADMIN"]}]_vars

\* A project was committed with its owner's ADMIN membership while another
\* creation had flushed its project row and not yet committed.
ProjectCreationAtomicWitness ==
    /\ \E w \in Workers : inflight[w].op = "create_project"
    /\ \E p \in projects :
          {m \in members : m.project_id = p.id} =
              {[project_id |-> p.id, user_id |-> "uu", role |-> "ADMIN"]}

(***************************************************************************)
(* Environment of AuthMiddleware: requests to every path with every kind   *)
(* of Authorization header, while tokens expire.  "ux" is the subject of a *)
(* token whose user has no row, None that of a token without a sub claim.  *)
(***************************************************************************)
Tokens ==
    {NoToken, [format |-> "malformed", sub |-> None, exp |-> 0, key |-> None]}
    \cup [format : {"jwt"}, sub : Users \cup {"ux", None}, exp : {1, 3},
          key : {"secret_key", "other_key"}]

Authorizations ==
    {[scheme |-> None, credentials |-> NoToken],
     [scheme |-> "Basic ", credentials |->
         [format |-> "jwt", sub |-> "uu", exp |-> 3, key |-> "secret_key"]]}
    \cup [scheme : {"Bearer "}, credentials : Tokens]

MwTick ==
    /\ Tick(MaxTime)
    /\ UNCHANGED <<dbVars, idVars, issued, resp, authVars, dispatched, rateVars, storyVars, helperVars, inflight, logVars>>

MwDispatch ==
    \E path \in RequestPaths, authorization \in Authorizations :
        /\ AuthMiddleware_dispatch(path, authorization)
        /\ UNCHANGED <<dbVars, idVars, issued, resp, now, authVars, rateVars, storyVars, helperVars, inflight, logVars>>

NextMw == MwTick \/ MwDispatch

SpecMw == Init /\ [][NextMw]_vars

\* C8: a request to a path that starts with none of /api/v1/auth/signup,
\* /api/v1/auth/login, /api/v1/auth/verify, /health, /docs, /redoc and
\* /openapi.json reaches a handler only with a bearer token whose signature
\* and expiry verify and whose subject is an existing, active user, and
\* then the request state holds that user's id and role; otherwise the
\* answer is 401 and no handler runs.
AuthGate ==
    LET Excluded ==
            {<<"/api/v1/auth", "/signup">>, <<"/api/v1/auth", "/login">>,
             <<"/api/v1/auth", "/verify">>, <<"/health">>, <<"/docs">>,
             <<"/redoc">>, <<"/openapi.json">>}
        path == dispatched.path
        header == dispatched.authorization
        token == header.credentials
        valid == /\ header.scheme = "Bearer "
                 /\ token.format = "jwt"
                 /\ token.key = "secret_key"
                 /\ token.exp >= dispatched.at
                 /\ token.sub \in Users
                 /\ UserActive[token.sub]
    IN  (/\ dispatched.status # 0
         /\ ~\E e \in Excluded : Len(e) <= Len(path) /\ SubSeq(path, 1, Len(e)) = e) =>
            IF valid
            THEN /\ dispatched.call_next
                 /\ dispatched.state =
                        [user_id |-> token.sub, user_role |-> UserRole[token.sub]]
            ELSE /\ dispatched.status = 401
                 /\ ~dispatched.call_next
                 /\ dispatched.state = NoState

\* The global VIEWER's valid token took a request to /api/v1/projects
\* through, with the VIEWER's id and role in the request state.
AuthGateWitness ==
    /\ dispatched.path = <<"/api/v1", "/projects">>
    /\ dispatched.call_next
    /\ dispatched.state = [user_id |-> "uv", user_role |-> "VIEWER"]
    /\ dispatched.at > 1

(***************************************************************************)
(* Environment of RateLimitMiddleware: two clients send requests to        *)
(* limited and unlimited paths while the clock advances.                   *)
(***************************************************************************)
MaxRateTime == 3

RateTick ==
    /\ Tick(MaxRateTime)
    /\ UNCHANGED <<dbVars, idVars, issued, resp, authVars, dispatched, rateVars, storyVars, helperVars, inflight, logVars>>

RateDispatch ==
    \E r \in RateRequests, recorded_at \in {now, now + 1} :
        /\ recorded_at <= MaxRateTime
        /\ RateLimitMiddleware_dispatch(r[1], r[2], recorded_at)
        /\ UNCHANGED <<dbVars, idVars, issued, authVars, dispatched, inflight, storyVars, helperVars, logVars>>

NextRate == RateTick \/ RateDispatch

SpecRate == Init /\ [][NextRate]_vars

\* The requests of an identifier that were let through with a timestamp in
\* the window of length RATE_LIMIT_WINDOW_SECONDS that ends at time T.
LetThrough(identifier, T) ==
    {i \in DOMAIN passed[identifier] :
        /\ passed[identifier][i] > T - RATE_LIMIT_WINDOW_SECONDS
        /\ passed[identifier][i] <= T}

\* C9: the sliding-window rate limit.  A request is answered 429 exactly
\* when its path is under /api/v1/auth or /api/v1/search and the requests of
\* its identifier recorded inside the trailing window number at least the
\* threshold; a rejected request is not recorded; the requests let through
\* in any trailing window never exceed the threshold; requests to other
\* paths are never limited and never recorded.
SlidingWindowLimit ==
    /\ [](\A identifier \in Identifiers, T \in 0 .. MaxRateTime :
            Cardinality(LetThrough(identifier, T)) <= RATE_LIMIT_REQUESTS)
    /\ [](\A r \in RateRequests :
            r[2][1] \notin {"/api/v1/auth", "/api/v1/search"} =>
                /\ passed[Identifier(r[1], r[2])] = <<>>
                /\ request_counts[Identifier(r[1], r[2])] = <<>>)
    /\ [][\A r \in RateRequests, recorded_at \in {now, now + 1} :
            RateLimitMiddleware_dispatch(r[1], r[2], recorded_at) =>
                LET identifier == Identifier(r[1], r[2])
                    limited == r[2][1] \in {"/api/v1/auth", "/api/v1/search"}
                IN  /\ resp'.status = 429 <=>
                          /\ limited
                          /\ Cardinality(LetThrough(identifier, now)) >= RATE_LIMIT_REQUESTS
                    /\ resp'.status = 429 => passed' = passed
                    /\ (resp'.status # 429 /\ limited) =>
                          passed' = [passed EXCEPT ![identifier] = Append(@, recorded_at)]]_vars

\* A client was let through more often than the threshold in all, its
\* latest request after earlier ones had left the window.
SlidingWindowLimitWitness ==
    /\ resp.op = "rate_limit"
    /\ resp.status = 200
    /\ Len(passed[resp.identifier]) > RATE_LIMIT_REQUESTS
    /\ Len(request_counts[resp.identifier]) <= RATE_LIMIT_REQUESTS

(***************************************************************************)
(* Environment of the board view: the owner "uu" creates projects and      *)
(* tasks, gives tasks any status and moves them; the owner and the global  *)
(* ADMIN "ua" read the boards.                                             *)
(***************************************************************************)
MaxViewProjects == 2
MaxViewTasks == 2

ViewCreateProject ==
    /\ next_project_id <= MaxViewProjects
    /\ create_project("uu", IF next_project_id = 1 THEN "AA" ELSE "BB", "TEAM_MANAGED")
    /\ RouterFrame

ViewCreateTask ==
    \E project_id \in 1 .. MaxViewProjects :
        /\ next_task_id <= MaxViewTasks
        /\ create_task("uu", project_id, TaskData)
        /\ resp'.status = 201
        /\ RouterFrame

ViewUpdateStatus ==
    \E task_id \in 1 .. MaxViewTasks, status \in TaskStatus :
        /\ update_task_status("uu", task_id, status)
        /\ resp'.status = 200
        /\ \A t \in tasks' : t.position <= MaxPosition
        /\ RouterFrame

ViewUpdatePosition ==
    \E task_id \in 1 .. MaxViewTasks, status \in TaskStatus :
        /\ update_task_position("uu", task_id, status, 1)
        /\ resp'.status = 200
        /\ \A t \in tasks' : t.position <= MaxPosition
        /\ RouterFrame

ViewGetBoard ==
    \E u \in {"ua", "uu"}, project_id \in 1 .. MaxViewProjects + 1 :
        /\ get_project_board(u, project_id)
        /\ RouterFrame

NextView ==
    \/ ViewCreateProject \/ ViewCreateTask \/ ViewUpdateStatus
    \/ ViewUpdatePosition \/ ViewGetBoard

SpecView == Init /\ [][NextView]_vars

\* C11: the board a project's board request returns has exactly the three
\* columns TODO, IN_PROGRESS, DONE, in that order; every task of the project
\* with one of these statuses is listed exactly once, in the column of its
\* status; every column ascends by position; every listed task is a stored
\* task of that project whose status is the column's, so no ARCHIVED task
\* and no task of another project is listed.
BoardColumns ==
    (resp.op = "get_project_board" /\ resp.status = 200) =>
        LET columns == resp.columns
            Listed == {e \in (1 .. 3) \X (1 .. MaxViewTasks + 1) :
                          e[2] \in DOMAIN columns[e[1]].tasks}
        IN  /\ DOMAIN columns = 1 .. 3
            /\ <<columns[1].status, columns[2].status, columns[3].status>> =
                  <<"TODO", "IN_PROGRESS", "DONE">>
            /\ \A t \in tasks :
                  (t.project_id = resp.project_id
                     /\ t.status \in {"TODO", "IN_PROGRESS", "DONE"}) =>
                      /\ Cardinality({e \in Listed : columns[e[1]].tasks[e[2]].id = t.id}) = 1
                      /\ \A e \in Listed : columns[e[1]].tasks[e[2]].id = t.id =>
                            columns[e[1]].status = t.status
            /\ \A e \in Listed, f \in Listed :
                  (e[1] = f[1] /\ e[2] < f[2]) =>
                      columns[e[1]].tasks[e[2]].position <= columns[f[1]].tasks[f[2]].position
            /\ \A e \in Listed :
                  \E t \in tasks :
                      /\ t.id = columns[e[1]].tasks[e[2]].id
                      /\ t.project_id = resp.project_id
                      /\ t.status # "ARCHIVED"
                      /\ t.status = columns[e[1]].status
                      /\ t.position = columns[e[1]].tasks[e[2]].position

\* A board was returned that lists one task, in IN_PROGRESS, while the
\* project's other task is ARCHIVED.
BoardColumnsWitness ==
    /\ resp.op = "get_project_board"
    /\ resp.status = 200
    /\ resp.columns[2].count = 1
    /\ resp.columns[1].count = 0
    /\ resp.columns[3].count = 0
    /\ \E t \in tasks : t.project_id = resp.project_id /\ t.status = "ARCHIVED"

(***************************************************************************)
(* Environment of the deletions: the owner "uu" creates projects, enrols   *)
(* "uw", creates tasks (with or without a parent task, of any project),    *)
(* uploads attachments, and deletes tasks and projects.                    *)
(***************************************************************************)
MaxCascadeProjects == 2
MaxCascadeTasks == 2
MaxCascadeAttachments == 2

CascadeCreateProject ==
    /\ next_project_id <= MaxCascadeProjects
    /\ create_project("uu", IF next_project_id = 1 THEN "AA" ELSE "BB", "TEAM_MANAGED")
    /\ RouterFrame

CascadeAddMember ==
    \E project_id \in 1 .. MaxCascadeProjects :
        /\ add_project_member("uu", project_id, "uw", "MEMBER")
        /\ resp'.status = 201
        /\ RouterFrame

CascadeCreateTask ==
    \E project_id \in 1 .. MaxCascadeProjects,
       parent_task_id \in {NoId} \cup (1 .. MaxCascadeTasks) :
        /\ next_task_id <= MaxCascadeTasks
        /\ create_task("uu", project_id, [TaskData EXCEPT !.parent_task_id = parent_task_id])
        /\ resp'.status = 201
        /\ RouterFrame

CascadeUpload ==
    \E task_id \in 1 .. MaxCascadeTasks :
        /\ next_attachment_id <= MaxCascadeAttachments
        /\ upload_attachment("uu", task_id, FALSE)
        /\ resp'.status = 200
        /\ RouterFrame

CascadeDeleteTask ==
    \E task_id \in 1 .. MaxCascadeTasks :
        /\ delete_task("uu", task_id)
        /\ RouterFrame

CascadeDeleteProject ==
    \E project_id \in 1 .. MaxCascadeProjects :
        /\ delete_project("uu", project_id)
        /\ RouterFrame

NextCascade ==
    \/ CascadeCreateProject \/ CascadeAddMember \/ CascadeCreateTask
    \/ CascadeUpload \/ CascadeDeleteTask \/ CascadeDeleteProject

SpecCascade == Init /\ [][NextCascade]_vars

\* No member, task, activity or label row references a project that is not
\* stored, and no attachment row references a task that is not stored.
NoDanglingRows ==
    /\ \A m \in members : \E p \in projects : p.id = m.project_id
    /\ \A t \in tasks : \E p \in projects : p.id = t.project_id
    /\ \A a \in activities : \E p \in projects : p.id = a.project_id
    /\ \A l \in labels : \E p \in projects : p.id = l.project_id
    /\ \A a \in attachments : \E t \in tasks : t.id = a.task_id

\* What a successful delete_project removes: exactly the project, its
\* membership rows, its tasks, their attachments, its activities and labels.
ProjectDeletionRemoves(project_id) ==
    LET gone == {t.id : t \in {t \in tasks : t.project_id = project_id}}
    IN  /\ projects' = {p \in projects : p.id # project_id}
        /\ members' = {m \in members : m.project_id # project_id}
        /\ {t.id : t \in tasks'} = {t.id : t \in tasks} \ gone
        /\ attachments' = {a \in attachments : a.task_id \notin gone}
        /\ activities' = {a \in activities : a.project_id # project_id}
        /\ labels' = {l \in labels : l.project_id # project_id}

\* What a successful delete_task removes and leaves: exactly the task and
\* its attachments go; projects, memberships and labels are unchanged; no
\* activity is removed, those of the task lose their task_id; a task that is
\* no subtask of the deleted task is unchanged, a subtask stays.
TaskDeletionRemoves(task_id) ==
    /\ projects' = projects /\ members' = members /\ labels' = labels
    /\ {t.id : t \in tasks'} = {t.id : t \in tasks} \ {task_id}
    /\ \A t \in tasks : (t.id # task_id /\ t.parent_task_id # task_id) => t \in tasks'
    /\ attachments' = {a \in attachments : a.task_id # task_id}
    /\ \A a \in activities :
          IF a.task_id = task_id THEN [a EXCEPT !.task_id = NoId] \in activities'
          ELSE a \in activities'
    /\ \A a \in activities' : a \in activities \/ a.task_id = NoId

MaxFetchProjects == 2
FetchCallers == {"ua", "uu", "uw", "uv"}

FetchCreateProject ==
    \E project_type \in ProjectTypes :
        /\ next_project_id <= MaxFetchProjects
        /\ create_project("uu", IF next_project_id = 1 THEN "AA" ELSE "BB", project_type)
        /\ RouterFrame

FetchAddMember ==
    \E project_id \in 1 .. MaxFetchProjects, role \in {"MEMBER", "VIEWER"} :
        /\ add_project_member("uu", project_id, "uv", role)
        /\ resp'.status = 201
        /\ RouterFrame

FetchDeleteProject ==
    \E project_id \in 1 .. MaxFetchProjects :
        /\ delete_project("uu", project_id)
        /\ resp'.status = 204
        /\ RouterFrame

FetchGetProject ==
    \E u \in FetchCallers, project_id \in 1 .. MaxFetchProjects + 1 :
        /\ get_project(u, project_id)
        /\ RouterFrame

NextFetch == FetchCreateProject \/ FetchAddMember \/ FetchDeleteProject \/ FetchGetProject

SpecFetch == Init /\ [][NextFetch]_vars

MaxSearchProjects == 2
MaxSearchTasks == 2
SearchQueries == {"T", "a", "-1", "zz"}

SearchCreateProject ==
    /\ next_project_id <= MaxSearchProjects
    /\ create_project("uu", IF next_project_id = 1 THEN "AA" ELSE "BB", "TEAM_MANAGED")
    /\ RouterFrame

SearchAddMember ==
    \E project_id \in 1 .. MaxSearchProjects :
        /\ add_project_member("uu", project_id, "uw", "MEMBER")
        /\ resp'.status = 201
        /\ RouterFrame

SearchArchiveProject ==
    \E project_id \in 1 .. MaxSearchProjects :
        /\ archive_project("uu", project_id)
        /\ resp'.status = 200
        /\ RouterFrame

SearchCreateTask ==
    \E project_id \in 1 .. MaxSearchProjects :
        /\ next_task_id <= MaxSearchTasks
        /\ create_task("uu", project_id, TaskData)
        /\ resp'.status = 201
        /\ RouterFrame

SearchGlobal ==
    \E u \in {"uu", "uw"}, q \in SearchQueries :
        /\ global_search(u, q)
        /\ RouterFrame

SearchTasks ==
    \E u \in {"uu", "uw"}, q \in SearchQueries,
       project_id \in {NoId} \cup (1 .. MaxSearchProjects) :
        /\ search_tasks(u, q, project_id)
        /\ RouterFrame

NextSearch ==
    \/ SearchCreateProject \/ SearchAddMember \/ SearchArchiveProject
    \/ SearchCreateTask \/ SearchGlobal \/ SearchTasks

SpecSearch == Init /\ [][NextSearch]_vars

\* C14: task search is scoped to the caller's projects.  Every task that
\* GET /search or GET /search/tasks returns, with or without the project_id
\* parameter, belongs to a project in which the caller has a membership row.
SearchScopedToMembership ==
    resp.op \in {"global_search", "search_tasks"} =>
        \A r \in resp.tasks :
            \E t \in tasks, m \in members :
                /\ t.id = r.id
                /\ m.project_id = t.project_id
                /\ m.user_id = resp.user_id

(***************************************************************************)
(* Environment of the Story Tracker: create-story requests with every kind *)
(* of file part, one after another.                                        *)
(***************************************************************************)
MaxStories == 3
Filenames ==
    {<<"">>, <<" ">>, <<"a.txt">>, <<"d", "a.txt">>, <<"b.txt">>, <<"d", "">>}
Contents == {<<>>, <<1>>, <<2>>, [i \in 1 .. max_file_size_bytes + 1 |-> 1]}
SupportDocuments ==
    {NoFile} \cup [sent : {TRUE}, filename : Filenames, content : Contents]

StoryFrame ==
    UNCHANGED <<dbVars, idVars, issued, now, authVars, dispatched, rateVars, inflight,
                helperVars, logVars>>

CreateUserStory ==
    \E support_document \in SupportDocuments :
        /\ next_story_id <= MaxStories
        /\ create_user_story(support_document)
        /\ StoryFrame

NextStory == CreateUserStory

SpecStory == Init /\ [][NextStory]_vars

\* C15: override detection.  Every successful upload returns the override
\* flag true exactly when a file of the same base name was in the upload
\* directory before it, and leaves its content stored under that name.  Over
\* a sequence of uploads the first upload of a name has the flag false and
\* every later one true, and the file under a name holds the content of the
\* latest upload of that name.
OverrideDetection ==
    /\ [](\A i \in DOMAIN saved :
            /\ saved[i].override <=>
                  \E j \in 1 .. i - 1 : saved[j].file_name = saved[i].file_name
            /\ (\A k \in i + 1 .. Len(saved) : saved[k].file_name # saved[i].file_name) =>
                  /\ saved[i].file_name \in DOMAIN upload_dir
                  /\ upload_dir[saved[i].file_name] = saved[i].content)
    /\ [][\A support_document \in SupportDocuments :
            (create_user_story(support_document) /\ resp'.status = 201) =>
                LET name == support_document.filename[Len(support_document.filename)]
                IN  /\ resp'.override <=> name \in DOMAIN upload_dir
                    /\ resp'.file_name = name
                    /\ upload_dir'[name] = support_document.content]_vars

\* The name a.txt was uploaded three times, the last time with a path in
\* front; the flags were false, true, true and the file holds the last content.
OverrideDetectionWitness ==
    /\ Len(saved) = 3
    /\ \A i \in 1 .. 3 : saved[i].file_name = "a.txt"
    /\ saved[1].content = <<1>> /\ saved[2].content = <<2>> /\ saved[3].content = <<1>>
    /\ resp.status = 201 /\ resp.override
    /\ upload_dir["a.txt"] = <<1>>

\* Every story row has its file in the upload directory.
StoriesHaveFiles ==
    \A story \in stories :
        /\ story.file_name \in DOMAIN upload_dir
        /\ story.file_size_bytes > 0

\* What a refused create-story request leaves: no story row, every stored
\* file with its content.
NothingStored == UNCHANGED <<stories, next_story_id, upload_dir>>

NewTaskAtEndOfTodo ==
    [][\A project_id \in 1 .. MaxBoardProjects :
          (create_task("uu", project_id, TaskData) /\ resp'.status = 201) =>
              LET todo == {t \in tasks : t.project_id = project_id /\ t.status = "TODO"}
                  created == tasks' \ tasks
              IN  /\ Cardinality(created) = 1
                  /\ tasks \subseteq tasks'
                  /\ \A new \in created :
                        /\ new.id = resp'.id
                        /\ new.project_id = project_id
                        /\ new.status = "TODO"
                        /\ new.reporter_id = "uu"
                        /\ \A t \in todo : t.position < new.position
                        /\ new.position = 1 \/ \E t \in todo : new.position = t.position + 1
                        /\ Len(resp'.logged) = 1
                        /\ resp'.logged[1].action = "TASK_CREATED"
                        /\ resp'.logged[1].task_key = new.task_key
                        /\ resp'.logged[1].task_id = new.id
                        /\ resp'.logged[1].project_id = project_id
                        /\ activities' = activities \cup
                              {[project_id |-> project_id, task_id |-> new.id]}
                        /\ \A a \in activities : a.task_id # new.id]_vars

\* A task was created at position 1 of TODO while the project's other task,
\* in DONE, has a larger position.
NewTaskAtEndOfTodoWitness ==
    /\ resp.op = "create_task"
    /\ resp.status = 201
    /\ \E new \in tasks, other \in tasks :
          /\ new.id = resp.id /\ new.status = "TODO" /\ new.position = 1
          /\ other.project_id = new.project_id
          /\ other.status = "DONE" /\ other.position > 1

(***************************************************************************)
(* Environment of the memberships: the owner "uu" creates projects; the    *)
(* global ADMIN "ua", the owner, the USER "uw" and the global VIEWER "uv"  *)
(* add and remove members, of projects stored or not.                      *)
(***************************************************************************)
MaxMemberProjects == 1
MemberCallers == {"ua", "uu", "uw", "uv"}
MemberSubjects == {"uu", "uw", "uv"}

MembersCreateProject ==
    /\ next_project_id <= MaxMemberProjects
    /\ create_project("uu", IF next_project_id = 1 THEN "AA" ELSE "BB", "TEAM_MANAGED")
    /\ RouterFrame

MembersAdd ==
    \E u \in MemberCallers, project_id \in 1 .. MaxMemberProjects,
       user_id \in MemberSubjects, role \in {"ADMIN", "MEMBER"} :
        /\ add_project_member(u, project_id, user_id, role)
        /\ RouterFrame

MembersRemove ==
    \E u \in MemberCallers, project_id \in 1 .. MaxMemberProjects,
       user_id \in MemberSubjects :
        /\ remove_project_member(u, project_id, user_id)
        /\ RouterFrame

NextMembers == MembersCreateProject \/ MembersAdd \/ MembersRemove

SpecMembers == Init /\ [][NextMembers]_vars

\* No user holds two membership rows of one project.
OneMembershipPerProject ==
    \A m1 \in members, m2 \in members :
        (m1.project_id = m2.project_id /\ m1.user_id = m2.user_id) => m1 = m2

\* The caller may manage the members of the project: a global ADMIN, or a
\* global USER with the membership role ADMIN.
MayManageMembers(u, project_id) ==
    \/ UserRole[u] = "ADMIN"
    \/ /\ UserRole[u] = "USER"
       /\ \E m \in members :
             m.project_id = project_id /\ m.user_id = u /\ m.role = "ADMIN"

\* C18, as the code has it: a user never holds more than one membership row
\* of a project.  With requests processed one after another, adding a user
\* who is already a member leaves memberships and activities unchanged and
\* fails with 400 when the caller may manage members, with 403 otherwise;
\* removing a user who is not a member records no MEMBER_REMOVED activity
\* and fails with 404 when the caller may manage members, with 403 otherwise.
MembershipUnique ==
    /\ []OneMembershipPerProject
    /\ [][\A u \in MemberCallers, project_id \in 1 .. MaxMemberProjects,
             user_id \in MemberSubjects :
            LET member == \E m \in members :
                              m.project_id = project_id /\ m.user_id = user_id
            IN  /\ \A role \in {"ADMIN", "MEMBER"} :
                      (member /\ add_project_member(u, project_id, user_id, role)) =>
                          /\ resp'.status =
                                IF MayManageMembers(u, project_id) THEN 400 ELSE 403
                          /\ resp'.logged = <<>>
                          /\ UNCHANGED <<members, activities>>
                /\ (~member /\ remove_project_member(u, project_id, user_id)) =>
                          /\ resp'.status =
                                IF MayManageMembers(u, project_id) THEN 404 ELSE 403
                          /\ resp'.logged = <<>>
                          /\ UNCHANGED <<members, activities>>]_vars

\* C18, as stated: adding a user who is already a member always fails with
\* 400 and removing a user who is not a member always fails with 404.
MembershipUniqueAlways400 ==
    /\ []OneMembershipPerProject
    /\ [][\A u \in MemberCallers, project_id \in 1 .. MaxMemberProjects,
             user_id \in MemberSubjects :
            LET member == \E m \in members :
                              m.project_id = project_id /\ m.user_id = user_id
            IN  /\ \A role \in {"ADMIN", "MEMBER"} :
                      (member /\ add_project_member(u, project_id, user_id, role)) =>
                          /\ resp'.status = 400
                          /\ resp'.logged = <<>>
                          /\ UNCHANGED <<members, activities>>
                /\ (~member /\ remove_project_member(u, project_id, user_id)) =>
                          /\ resp'.status = 404
                          /\ resp'.logged = <<>>
                          /\ UNCHANGED <<members, activities>>]_vars

\* A user who had been removed and added again was refused a second
\* membership of the project with 400.
MembershipUniqueWitness ==
    /\ resp.op = "add_project_member"
    /\ resp.status = 400
    /\ \E m \in members : m.user_id = "uw" /\ m.role = "MEMBER"
    /\ \E m \in members : m.user_id = "uv" /\ m.role = "ADMIN"
    /\ \A m \in members : m.user_id # "uu"

(***************************************************************************)
(* Environment of paginate: one call with a sequence, a page and a limit.  *)
(***************************************************************************)
MaxItems == 4
MaxPage == 4
MaxLimit == 3
ItemLists == UNION {[1 .. n -> {"x", "y"}] : n \in 0 .. MaxItems}

\* What a call of a helper leaves alone.
HelperFrame ==
    UNCHANGED <<dbVars, idVars, issued, resp, now, authVars, dispatched, rateVars,
                inflight, storyVars, logVars>>

InitPaginate ==
    /\ InitTables /\ InitRest
    /\ args \in [fn : {"paginate"}, items : ItemLists, page : 1 .. MaxPage,
                  limit : 1 .. MaxLimit]
    /\ result = {}

Paginate ==
    /\ result = {}
    /\ result' = {paginate(args.items, args.page, args.limit)}
    /\ UNCHANGED args
    /\ HelperFrame

NextPaginate == Paginate

SpecPaginate == InitPaginate /\ [][NextPaginate]_vars

\* The items of pages first .. last of a sequence, one page after the other.
RECURSIVE PagesFrom(_, _, _, _)
PagesFrom(items, limit, first, last) ==
    IF first > last THEN <<>>
    ELSE paginate(items, first, limit).items \o PagesFrom(items, limit, first + 1, last)

\* C19: for a sequence, a page >= 1 and a limit >= 1, paginate returns
\* total = len(items), pages = the ceiling of total / limit, items = the
\* elements at the offsets (page-1)*limit up to, not including, page*limit,
\* has_next = (page < pages) and has_prev = (page > 1); the items of the
\* pages 1 .. pages, one after the other, are the sequence.
PaginateContract ==
    \A r \in result :
        LET items == args.items
            page == args.page
            limit == args.limit
            total == Len(items)
            offsets == {k \in 0 .. total - 1 : (page - 1) * limit <= k /\ k < page * limit}
        IN  /\ r.total = total
            /\ r.pages * limit >= total
            /\ (r.pages - 1) * limit < total \/ (total = 0 /\ r.pages = 0)
            /\ Len(r.items) = Cardinality(offsets)
            /\ \A i \in DOMAIN r.items : r.items[i] = items[(page - 1) * limit + i]
            /\ r.has_next <=> page < r.pages
            /\ r.has_prev <=> page > 1
            /\ PagesFrom(items, limit, 1, r.pages) = items

\* The second of two pages was returned: it holds the one remaining element,
\* has a previous page and no next one.
PaginateContractWitness ==
    /\ args.fn = "paginate"
    /\ args.items = <<"x", "y", "x">> /\ args.page = 2 /\ args.limit = 2
    /\ \E r \in result :
          /\ r.items = <<"x">> /\ r.pages = 2
          /\ r.has_prev /\ ~r.has_next

(***************************************************************************)
(* Environment of is_valid_status_transition: one call with two status     *)
(* texts, statuses of the enumeration or not.                              *)
(***************************************************************************)
StatusTexts == TaskStatus \cup {"IN_REVIEW", "BLOCKED", "todo", ""}

InitTransition ==
    /\ InitTables /\ InitRest
    /\ args \in [fn : {"is_valid_status_transition"}, current_status : StatusTexts,
                  new_status : StatusTexts]
    /\ result = {}

Transition ==
    /\ result = {}
    /\ result' = {is_valid_status_transition(args.current_status, args.new_status)}
    /\ UNCHANGED args
    /\ HelperFrame

NextTransition == Transition

SpecTransition == InitTransition /\ [][NextTransition]_vars

\* C20: is_valid_status_transition(S, D) is true exactly for the pairs
\* TODO->IN_PROGRESS, IN_PROGRESS->TODO, IN_PROGRESS->DONE,
\* DONE->IN_PROGRESS, DONE->ARCHIVED and ARCHIVED->TODO, and false for every
\* other pair, self-transitions and unknown statuses included.
StatusTransitionTable ==
    \A r \in result :
        r <=> <<args.current_status, args.new_status>> \in
                {<<"TODO", "IN_PROGRESS">>, <<"IN_PROGRESS", "TODO">>,
                 <<"IN_PROGRESS", "DONE">>, <<"DONE", "IN_PROGRESS">>,
                 <<"DONE", "ARCHIVED">>, <<"ARCHIVED", "TODO">>}

\* DONE -> ARCHIVED was found valid.
StatusTransitionTableWitness ==
    /\ args.fn = "is_valid_status_transition"
    /\ args.current_status = "DONE" /\ args.new_status = "ARCHIVED"
    /\ result = {TRUE}

(***************************************************************************)
(* Environment of concurrent verifications: links are sent and the clock   *)
(* advances while two workers verify, each between its query and its       *)
(* commits.                                                                *)
(***************************************************************************)
MaxVerifyLinks == 1
MaxVerifyTime == 2

VerifyFrame == UNCHANGED <<dbVars, idVars, issued, dispatched, rateVars, storyVars, helperVars, logVars>>

VerifyTick ==
    /\ Tick(MaxVerifyTime)
    /\ UNCHANGED <<resp, authVars, inflight>>
    /\ VerifyFrame

VerifySend ==
    \E user_id \in {"uu", "uv"} :
        /\ next_token <= MaxVerifyLinks
        /\ send_magic_link(user_id)
        /\ UNCHANGED <<now, inflight>>
        /\ VerifyFrame

VerifyRead ==
    \E w \in Workers, token \in 1 .. MaxVerifyLinks :
        /\ verify_magic_link_read(w, token)
        /\ UNCHANGED now
        /\ VerifyFrame

VerifyCommit ==
    \E w \in Workers :
        /\ verify_magic_link_commit(w)
        /\ UNCHANGED now
        /\ VerifyFrame

NextVerify == VerifyTick \/ VerifySend \/ VerifyRead \/ VerifyCommit

SpecVerify == Init /\ [][NextVerify]_vars

\* C21: when two verify requests for the same unused, unexpired magic link
\* interleave, at most one of them returns a bearer token and creates a
\* session: no link token is behind two bearer tokens, and no link is behind
\* two sessions.
OneBearerTokenPerLink ==
    /\ \A token \in DOMAIN verified : verified[token] <= 1
    /\ Cardinality(sessions) <= Cardinality({l \in magic_links : l.is_used})

(***************************************************************************)
(* Environment of the attachment routes: two users own a project each,     *)
(* upload to their own tasks, and ask to delete any attachment through any *)
(* task.                                                                   *)
(***************************************************************************)
MaxAttachProjects == 2
MaxAttachTasks == 2
MaxAttachAttachments == 2
AttachCallers == {"uu", "uw"}

AttachCreateProject ==
    \E u \in AttachCallers, project_key \in ProjectKeys :
        /\ next_project_id <= MaxAttachProjects
        /\ create_project(u, project_key, "TEAM_MANAGED")
        /\ resp'.status = 201
        /\ RouterFrame

AttachCreateTask ==
    \E u \in AttachCallers, project_id \in 1 .. MaxAttachProjects :
        /\ next_task_id <= MaxAttachTasks
        /\ create_task(u, project_id, TaskData)
        /\ resp'.status = 201
        /\ RouterFrame

AttachUpload ==
    \E u \in AttachCallers, task_id \in 1 .. MaxAttachTasks :
        /\ next_attachment_id <= MaxAttachAttachments
        /\ upload_attachment(u, task_id, FALSE)
        /\ resp'.status = 200
        /\ RouterFrame

AttachDelete ==
    \E u \in AttachCallers, task_id \in 1 .. MaxAttachTasks,
       attachment_id \in 1 .. MaxAttachAttachments :
        /\ delete_attachment(u, task_id, attachment_id)
        /\ RouterFrame

NextAttach == AttachCreateProject \/ AttachCreateTask \/ AttachUpload \/ AttachDelete

SpecAttach == Init /\ [][NextAttach]_vars

\* C22: DELETE /{task_id}/attachments/{attachment_id} removes only an
\* attachment of the task named in the path, the task on whose project the
\* caller's EDIT permission was checked; attachments of other tasks are
\* never removed by it.
DeleteAttachmentOfPathTask ==
    [][\A u \in AttachCallers, task_id \in 1 .. MaxAttachTasks,
         attachment_id \in 1 .. MaxAttachAttachments :
            delete_attachment(u, task_id, attachment_id) =>
                \A a \in attachments \ attachments' : a.task_id = task_id]_vars

(***************************************************************************)
(* Environment of the columns: the owner "uu" fills two projects with      *)
(* tasks and moves them to positions of either column, one request after   *)
(* the other.                                                              *)
(***************************************************************************)
MaxMoveProjects == 2
MaxMoveTasks == 3
MaxMovePosition == 2
MoveStatuses == {"TODO", "DONE"}

MoveCreateProject ==
    /\ next_project_id <= MaxMoveProjects
    /\ create_project("uu", IF next_project_id = 1 THEN "AA" ELSE "BB", "TEAM_MANAGED")
    /\ RouterFrame

MoveCreateTask ==
    \E project_id \in 1 .. MaxMoveProjects :
        /\ next_task_id <= MaxMoveTasks
        /\ create_task("uu", project_id, TaskData)
        /\ resp'.status = 201
        /\ RouterFrame

MoveUpdatePosition ==
    \E task_id \in 1 .. MaxMoveTasks, status \in MoveStatuses,
       position \in 0 .. MaxMovePosition :
        /\ update_task_position("uu", task_id, status, position)
        /\ resp'.status = 200
        /\ \A t \in tasks' : t.position <= MaxMovePosition
        /\ RouterFrame

NextMove == MoveCreateProject \/ MoveCreateTask \/ MoveUpdatePosition

SpecMove == Init /\ [][NextMove]_vars

\* C24: update_task_position(task, S, p) sets the task's status to S and its
\* position to p, raises by exactly one the position of every other task of
\* the same project in status S whose position was >= p, and leaves alone the
\* position of every task of status S below p, of every task of another
\* status (the column the task left included) and of every task of another
\* project; the other tasks of column S keep their relative order.
PositionMoveShifts ==
    [][\A task_id \in 1 .. MaxMoveTasks, S \in MoveStatuses, p \in 0 .. MaxMovePosition :
          (update_task_position("uu", task_id, S, p) /\ resp'.status = 200) =>
              LET old == CHOOSE t \in tasks : t.id = task_id
                  new == CHOOSE t \in tasks' : t.id = task_id
                  others == {t \in tasks : t.id # task_id}
                  After(t) == CHOOSE n \in tasks' : n.id = t.id
                  column == {t \in others : t.project_id = old.project_id /\ t.status = S}
              IN  /\ new = [old EXCEPT !.status = S, !.position = p]
                  /\ {t.id : t \in tasks'} = {t.id : t \in tasks}
                  /\ \A t \in others :
                        IF t \in column /\ t.position >= p
                        THEN After(t) = [t EXCEPT !.position = t.position + 1]
                        ELSE After(t) = t
                  /\ \A t \in column, o \in column :
                        t.position < o.position => After(t).position < After(o).position]_vars

\* A task came from the DONE column to position 0 of a TODO column: the task
\* that stood there at position 1 moved up to 2, and a TODO task of the other
\* project kept its position 1.
PositionMoveShiftsWitness ==
    /\ resp.op = "update_task_position"
    /\ resp.status = 200
    /\ Len(resp.logged) = 1
    /\ \E t \in tasks, o \in tasks, x \in tasks :
          /\ t.id = resp.id /\ t.status = "TODO" /\ t.position = 0
          /\ o.id # t.id /\ o.project_id = t.project_id /\ o.status = "TODO"
          /\ o.position = 2
          /\ x.project_id # t.project_id /\ x.status = "TODO" /\ x.position = 1

(***************************************************************************)
(* Environment of the task updates: the owner "uu" creates a project and   *)
(* tasks with or without an assignee, and sends PATCH bodies that set the  *)
(* title, set or clear the assignee, or name fields that are no part of    *)
(* the update schema; statuses and positions change in between.            *)
(***************************************************************************)
MaxUpdateProjects == 1
MaxUpdateTasks == 1
MaxUpdatePosition == 2
UpdateStatuses == {"TODO", "DONE"}
UpdateBodies ==
    {[title |-> "t1"],
     [assignee_id |-> None],
     [assignee_id |-> "uw"],
     [title |-> "t1", assignee_id |-> "uu"],
     [title |-> "t1", task_key |-> TaskKey("BB", MaxUpdateTasks + 1),
      task_number |-> MaxUpdateTasks + 1, project_id |-> MaxUpdateProjects + 1,
      reporter_id |-> "uw", status |-> "DONE", position |-> MaxUpdatePosition + 1]}

UpdateCreateProject ==
    /\ next_project_id <= MaxUpdateProjects
    /\ create_project("uu", "AA", "TEAM_MANAGED")
    /\ RouterFrame

UpdateCreateTask ==
    \E project_id \in 1 .. MaxUpdateProjects, assignee_id \in {None, "uw"} :
        /\ next_task_id <= MaxUpdateTasks
        /\ create_task("uu", project_id, [TaskData EXCEPT !.assignee_id = assignee_id])
        /\ resp'.status = 201
        /\ RouterFrame

UpdatePatch ==
    \E task_id \in 1 .. MaxUpdateTasks, body \in UpdateBodies :
        /\ update_task("uu", task_id, TaskUpdate(body))
        /\ RouterFrame

UpdateStatus ==
    \E task_id \in 1 .. MaxUpdateTasks, status \in UpdateStatuses :
        /\ update_task_status("uu", task_id, status)
        /\ resp'.status = 200
        /\ \A t \in tasks' : t.position <= MaxUpdatePosition
        /\ RouterFrame

UpdatePosition ==
    \E task_id \in 1 .. MaxUpdateTasks, status \in UpdateStatuses,
       position \in 0 .. MaxUpdatePosition :
        /\ update_task_position("uu", task_id, status, position)
        /\ resp'.status = 200
        /\ \A t \in tasks' : t.position <= MaxUpdatePosition
        /\ RouterFrame

NextUpdate ==
    \/ UpdateCreateProject \/ UpdateCreateTask \/ UpdatePatch
    \/ UpdateStatus \/ UpdatePosition

SpecUpdate == Init /\ [][NextUpdate]_vars

\* C25: every successful PATCH /{task_id} records exactly one TASK_UPDATED
\* activity, and after it one ASSIGNEE_CHANGED activity, from the prior
\* assignee to the supplied one, exactly when the request supplied the
\* assignee field with a value that differs from the prior assignee, null to
\* unassign an assigned task included.
TaskUpdateLogged ==
    [][\A task_id \in 1 .. MaxUpdateTasks, body \in UpdateBodies :
          (update_task("uu", task_id, TaskUpdate(body)) /\ resp'.status = 200) =>
              LET old == CHOOSE t \in tasks : t.id = task_id
                  supplied == "assignee_id" \in DOMAIN body
                  updated == Activity(old.project_id, task_id, "TASK_UPDATED",
                                      old.task_key, None, None)
              IN  IF supplied /\ body.assignee_id # old.assignee_id
                  THEN resp'.logged =
                          <<updated,
                            Activity(old.project_id, task_id, "ASSIGNEE_CHANGED",
                                     old.task_key, old.assignee_id, body.assignee_id)>>
                  ELSE resp'.logged = <<updated>>]_vars

\* The fields that identify a task.
TaskIdentity(t) == <<t.id, t.task_key, t.task_number, t.project_id, t.reporter_id>>

\* C26: a task's identity is immutable.  No partial update, status change or
\* position change modifies task_key, task_number, project_id or reporter_id
\* of a stored task, and a partial update changes only the fields the request
\* set: status, position and every field not supplied stay as they were, and
\* so does every other task.
TaskIdentityImmutable ==
    /\ [][\A t \in tasks : \A n \in tasks' : n.id = t.id => TaskIdentity(n) = TaskIdentity(t)]_vars
    /\ [][\A task_id \in 1 .. MaxUpdateTasks, body \in UpdateBodies :
            (update_task("uu", task_id, TaskUpdate(body)) /\ resp'.status = 200) =>
                LET old == CHOOSE t \in tasks : t.id = task_id
                    new == CHOOSE t \in tasks' : t.id = task_id
                IN  /\ \A f \in DOMAIN old :
                          new[f] = IF f \in DOMAIN body \cap TaskUpdateFields
                                   THEN body[f] ELSE old[f]
                    /\ tasks' \ {new} = tasks \ {old}]_vars

\* A PATCH that set the title went through on a task that a move had put at
\* position 0 of the DONE column: the task has the new title, the assignee
\* it was created with, the status and position of the move and the key,
\* number, project and reporter of its creation.
TaskIdentityImmutableWitness ==
    /\ resp.op = "update_task"
    /\ resp.status = 200
    /\ \E t \in tasks :
          /\ t.id = resp.id /\ t.title = "t1" /\ t.assignee_id = "uw"
          /\ t.status = "DONE" /\ t.position = 0
          /\ t.task_key = TaskKey("AA", t.task_number) /\ t.reporter_id = "uu"

\* C23, on the board environment: positions are unique per column.  After any
\* sequence of create-task,
\* status-change, position-change and delete-task requests served one after
\* another, no two tasks of one project with the same status have the same
\* position.
PositionsUniquePerColumn ==
    \A t \in tasks, o \in tasks :
        (t.id # o.id /\ t.project_id = o.project_id /\ t.status = o.status)
            => t.position # o.position

\* A task was moved to the position another task of its column held: that
\* task now stands one position behind it.
PositionsUniquePerColumnWitness ==
    /\ resp.op = "update_task_position"
    /\ resp.status = 200
    /\ resp.logged = <<>>
    /\ \E t \in tasks, o \in tasks :
          /\ t.id = resp.id /\ o.id # t.id
          /\ o.project_id = t.project_id /\ o.status = t.status
          /\ t.position = 1 /\ o.position = 2

\* C27, on the environment of the memberships: in every reachable state every
\* stored project has at least one membership row with role ADMIN; no
\* sequence of permitted member-add and member-remove requests leaves a
\* project without an ADMIN member.
ProjectKeepsAnAdmin ==
    \A p \in projects : \E m \in members : m.project_id = p.id /\ m.role = "ADMIN"

\* C28, on the environment of the access-control engine: the access decision
\* does not depend on the project type.  What require_project_access answers
\* for a user, a membership and a permission on the stored project is what
\* it answers for them on a project of the other type: the COMPANY_MANAGED
\* branch never rejects a request the role table allows.
AccessIgnoresProjectType ==
    resp.op = "require_project_access" =>
        \A p \in projects :
            LET u == resp.user_id
                user == get_user_by_id(u)
                member == get_project_member(p.id, u)
                other == CHOOSE project_type \in ProjectTypes :
                            project_type # p.project_type
            IN  resp.status =
                    AccessDecision(IF user = None THEN None ELSE UserRole[user],
                                   IF member = {} THEN None ELSE First(member).role,
                                   other, resp.permission)

\* A MEMBER of a COMPANY_MANAGED project, a global USER, was allowed to EDIT.
AccessIgnoresProjectTypeWitness ==
    /\ resp.op = "require_project_access"
    /\ resp.status = 200
    /\ resp.permission = "EDIT"
    /\ resp.user_id = "uu"
    /\ \E p \in projects : p.project_type = "COMPANY_MANAGED"
    /\ \E m \in members : m.user_id = "uu" /\ m.role = "MEMBER"

(***************************************************************************)
(* Environment of the pipeline: requests with and without valid bearer     *)
(* tokens pass the logging, rate-limit and authentication middleware.      *)
(***************************************************************************)
MaxLogged == 2
PipelineRequests ==
    {<<"ip1", <<"/api/v1/auth", "/login">>>>, <<"ip1", <<"/api/v1", "/projects">>>>,
     <<"ip2", <<"/api/v1/search", "?q=a">>>>}

PipelineTick ==
    /\ Tick(MaxRateTime)
    /\ UNCHANGED <<dbVars, idVars, issued, resp, authVars, dispatched, rateVars, storyVars,
                   helperVars, inflight, logVars>>

PipelineDispatch ==
    \E r \in PipelineRequests, authorization \in Authorizations :
        /\ Len(api_log) < MaxLogged
        /\ LoggingMiddleware_dispatch(r[1], r[2], authorization)
        /\ UNCHANGED <<dbVars, idVars, issued, authVars, inflight, storyVars, helperVars>>

NextPipeline == PipelineTick \/ PipelineDispatch

SpecPipeline == Init /\ [][NextPipeline]_vars

\* C29: with the pipeline order logging -> rate limiting -> authentication
\* -> route, the line the logging middleware writes for a request that
\* passed authentication records the id of the authenticated user, and
\* records "anonymous" only for a request that was not authenticated.
LogRecordsAuthenticatedUser ==
    \A i \in DOMAIN api_log :
        /\ api_log[i].state.user_id # None => api_log[i].user_id = api_log[i].state.user_id
        /\ api_log[i].user_id = "anonymous" => api_log[i].state.user_id = None

(***************************************************************************)
(* Environment of concurrent uploads: two workers serve Story Tracker      *)
(* uploads over two file names, each request waiting for its content       *)
(* between the existence check and the write.                              *)
(***************************************************************************)
MaxUploads == 3
UploadDocuments ==
    {[sent |-> TRUE, filename |-> <<name>>, content |-> <<"x">>] : name \in {"a.txt", "b.txt"}}
    \cup {[sent |-> TRUE, filename |-> <<"a.txt">>, content |-> <<>>]}

UploadFrame ==
    UNCHANGED <<dbVars, idVars, issued, now, authVars, dispatched, rateVars, helperVars,
                logVars>>

UploadExists ==
    \E w \in Workers, support_document \in UploadDocuments :
        /\ next_story_id <= MaxUploads
        /\ save_upload_file_exists(w, support_document)
        /\ UploadFrame

UploadWrite ==
    \E w \in Workers : save_upload_file_write(w) /\ UploadFrame

NextUpload == UploadExists \/ UploadWrite

SpecUpload == Init /\ [][NextUpload]_vars

\* C30: when two Story Tracker uploads of the same file name interleave, the
\* override flag each returns is true exactly when a file of that name was on
\* disk at the moment that upload wrote its content; two uploads of a new
\* name never both return override = false.
OverrideFlagAtWrite ==
    /\ \A i \in DOMAIN saved : saved[i].override = saved[i].on_disk
    /\ \A i \in DOMAIN saved, j \in DOMAIN saved :
          (i < j /\ saved[i].file_name = saved[j].file_name)
              => saved[i].override \/ saved[j].override

====
